---- MODULE Spec2Model ----
(***************************************************************************)
(* The inode layer of rdmfs (src/rdmfs/inode.py): the registry of inodes,  *)
(* the listing caches, the per-file attribute cache and the resolver       *)
(* find_by_name, together with the remote service they talk to.            *)
(***************************************************************************)
EXTENDS Integers, Sequences, FiniteSets, TLC

\* ------------------------------------------------------------ constants
ROOT == 1
FILE_ATTRIBUTE_CACHE_TTL == 60
LIST_CACHE_TTL == 180

\* ------------------------------------------------------------ bounds
MaxInodes == 6
MaxPairInodes == 7
MaxRootTasks == 2
TickStep == 90
MaxTime == 90
ClockStep == 100
ClockMax == 200

MaxStorages == 2
MaxPages == 3
MaxPageLen == 1
MaxReads == 2
MaxAttrs == 2

Names == {"a", "b"}
Projects == {"p1", "p2"}
RootProject == "p1"
\* The remote files and folders of the storage of RootProject.
Objs == {"o1", "d1"}
ObjOrder == <<"o1", "d1">>
StorageName == "osfstorage"

NoName == ""
NoId == 0
NoTime == -1

\* ------------------------------------------------------------ remote objects
\* What the remote client hands over: a Project, a Storage, a File or a Folder,
\* or one of the descriptors built by the inode layer itself.
Obj(okind, oid, name, opath, attrs) ==
    [okind |-> okind, oid |-> oid, name |-> name, opath |-> opath, attrs |-> attrs]

NoObj == Obj("None", "", NoName, <<>>, 0)

OKind(o) == IF o = "d1" THEN "Folder" ELSE "File"

\* The path the server reports for an object (osf_path): the provider names
\* objects by id, as osfstorage does, and a folder's path ends with a slash.
OPath(o, nm) == IF OKind(o) = "Folder" THEN <<"/", o, "/">> ELSE <<"/", o>>

VARIABLES
    mode,         \* "single" (Inodes(osf, project)), "all" (list_all_projects)
                  \* or "unset" (Inodes(osf, None))
    now,          \* time.time()
    inodes,       \* Inodes._inodes
    childRel,     \* Inodes._child_relations: parent id -> [children, at]
    projCache,    \* Inodes._projects_cache with _projects_cache_loaded_at
    pcCache,      \* Inodes._project_children_cache: project id -> [list, at]
    plCache,      \* Inodes._project_linked_cache: project id -> [list, at]
    rootPending,  \* get(ROOT) tasks suspended in _get_osfproject
    rname,        \* remote: the name of each object of the storage ("" = absent)
    rnodes,       \* remote: the projects /users/me/nodes lists
    rchild,       \* remote: the projects /nodes/p1/children lists
    rlinked,      \* remote: the projects /nodes/p1/linked_nodes lists
    probes,       \* history: canonical paths of the probes resolved so far
    absorbed,     \* history: probe paths answered by a pending NewFile
    fetchedAt,    \* history: when the remote sent what _child_relations[p] holds
    paging,       \* a listing of projects under way: the pages the remote serves
                  \* and the locals of _paginate_nodes and of its caller
    reading       \* the attributes /nodes/p1 serves, and the calls suspended in
                  \* an await: reads of .attributes.json and one find_by_name

vars == <<mode, now, inodes, childRel, projCache, pcCache, plCache, rootPending,
          rname, rnodes, rchild, rlinked, probes, absorbed, fetchedAt, paging,
          reading>>

remoteVars == <<rname, rnodes, rchild, rlinked>>
cacheVars == <<childRel, projCache, pcCache, plCache>>
histVars == <<probes, absorbed, fetchedAt>>
pageVars == <<paging>>
attrVars == <<reading>>

\* ------------------------------------------------------------ entities
Entity(kind, parent, file, meta, t) ==
    [kind |-> kind, parent |-> parent, removed |-> FALSE, gen |-> 1,
     file |-> file, updated |-> NoObj, last_loaded |-> t,
     updated_name |-> NoName, invalidated |-> FALSE, meta |-> meta]

DirKinds == {"ProjectsRoot", "Project", "Children", "Linked", "Storage", "Folder"}

\* A faulty has_children, which takes every inode for a directory.
AlwaysDir(e) == TRUE

has_children(e) == e.kind \in DirKinds

_latest(e) == IF e.updated # NoObj THEN e.updated ELSE e.file

_is_new_file(e) == e.kind = "File" /\ e.file.okind = "NewFile"

Or(a, b) == IF a # NoName THEN a ELSE b

name(e) ==
    CASE e.kind = "ProjectsRoot" -> ""
      [] e.kind = "Project"      -> e.file.name
      [] e.kind = "Attrs"        -> ".attributes.json"
      [] e.kind = "Children"     -> ".children"
      [] e.kind = "Linked"       -> ".linked"
      [] e.kind = "Storage"      -> e.file.name
      [] e.kind = "File" /\ e.file.okind = "NewFile" -> e.file.name
      [] OTHER                   -> Or(e.updated_name, _latest(e).name)

\* str.startswith('/') and the slice [1:] of BaseFileInode.path.
StripSlash(p) == IF Len(p) > 0 /\ Head(p) = "/" THEN Tail(p) ELSE p

RECURSIVE PathOf(_, _)
RECURSIVE StoragePath(_, _)
\* The canonical path of entity e, its ancestors being looked up in ino.
PathOf(ino, e) ==
    LET up == IF e.parent = NoId THEN <<>> ELSE PathOf(ino, ino[e.parent])
    IN CASE e.kind = "ProjectsRoot" -> <<"/">>
         [] e.kind = "Project" ->
              IF e.parent # NoId THEN up \o <<name(e), "/">>
              ELSE <<"/", e.file.oid, "/">>
         [] e.kind = "Attrs"    -> up \o <<".attributes.json">>
         [] e.kind = "Children" -> up \o <<".children", "/">>
         [] e.kind = "Linked"   -> up \o <<".linked", "/">>
         [] e.kind = "Storage"  -> up \o <<e.file.name, "/">>
         [] e.kind = "File" /\ e.file.okind = "NewFile" -> up \o <<e.file.name>>
         [] OTHER -> StoragePath(ino, e) \o StripSlash(_latest(e).opath)

\* BaseFileInode.storage: the path of the enclosing Storage inode.
StoragePath(ino, e) ==
    IF e.kind = "Storage" THEN PathOf(ino, e)
    ELSE StoragePath(ino, ino[e.parent])

path(ino, i) == PathOf(ino, ino[i])

Live(ino) == {i \in DOMAIN ino : ~ino[i].removed}

Min(S) == CHOOSE x \in S : \A y \in S : x <= y

\* ------------------------------------------------------------ initial state
NoUrl == 0

\* No listing of projects is under way.
NoPaging == [pages |-> << >>, next_url |-> NoUrl, visited |-> {}, projects |-> << >>,
             pc |-> "idle", issued |-> {}, reissued |-> {}]

InitRegistry ==
    /\ mode \in {"single", "all", "unset"}
    /\ now = 0
    /\ inodes = << >>
    /\ childRel = << >>
    /\ projCache = [list |-> << >>, at |-> NoTime]
    /\ pcCache = << >>
    /\ plCache = << >>
    /\ rootPending = 0
    /\ rname = [o \in Objs |-> NoName]
    /\ rnodes = {RootProject}
    /\ rchild = {}
    /\ rlinked = {}
    /\ probes = {}
    /\ absorbed = {}
    /\ fetchedAt = << >>

\* No read of .attributes.json has been requested or has ended.
NoRead == [ino |-> NoId, held |-> FALSE, got |-> 0]

\* No find_by_name is suspended in its listing.
NoLookup == [p |-> NoId, n |-> NoName, list |-> << >>, k |-> 0, children |-> << >>,
             found |-> NoObj]

\* Nothing is in flight, and /nodes/p1 serves the first version of the attributes.
NoReading == [remote |-> 1, reads |-> [t \in 1..MaxReads |-> NoRead],
              lookup |-> NoLookup]

Init == InitRegistry /\ paging = NoPaging /\ reading = NoReading

\* ------------------------------------------------------------ the remote
ProjOrder == <<"p1", "p2">>

ProjectObj(pid) == Obj("Project", pid, pid, <<>>, 1)

RemoteObj(o) == Obj(OKind(o), o, rname[o], OPath(o, rname[o]), 0)

IsPresent(o) == rname[o] # NoName

\* sorted(projects.values(), key=id) of the nodes a listing returns.
SortedProjects(S) == SelectSeq(ProjOrder, LAMBDA q : q \in S)

\* The attributes /nodes/{id} returns.
RemoteAttrs(pid) == IF pid = RootProject THEN reading.remote ELSE 1

\* project.storages
RemoteStorages(pid) ==
    IF pid = RootProject THEN <<Obj("Storage", StorageName, StorageName, <<>>, 0)>>
    ELSE << >>

\* parent.object.children: the listing of a storage or of a folder; it fails for
\* an object that is not (or no longer) a folder on the server.
RemoteChildren(pe) ==
    IF pe.kind = "Storage"
    THEN [ok |-> TRUE,
          list |-> SelectSeq([k \in 1..Len(ObjOrder) |-> RemoteObj(ObjOrder[k])],
                             LAMBDA c : c.name # NoName)]
    ELSE IF pe.kind = "Folder" /\ _latest(pe).okind = "Folder" /\ IsPresent(_latest(pe).oid)
         THEN [ok |-> TRUE, list |-> << >>]
         ELSE [ok |-> FALSE, list |-> << >>]

\* ------------------------------------------------------------ attribute cache
\* The first child of the listing with the name nm, None if there is none.
_get_child_by_name(list, nm) ==
    LET hits == {k \in 1..Len(list) : list[k].name = nm}
    IN IF hits = {} THEN NoObj ELSE list[Min(hits)]

\* A faulty lookup by path, which never finds a child.
NoChildByPath(list, p) == NoObj

\* The first child of the listing with the path p, None if there is none.
_get_child_by_path(list, p) ==
    LET hits == {k \in 1..Len(list) : list[k].opath = p}
    IN IF hits = {} THEN NoObj ELSE list[Min(hits)]

\* BaseFileInode._get_path of the object the inode holds.
_path(ino, e) == IF _latest(e).okind = "NewFile"
                 THEN PathOf(ino, e) ELSE _latest(e).opath

\* A faulty _validate, which accepts every object.
NoValidate(e, child) == ""

\* FileInode._validate / FolderInode._validate
_validate(e, child) == IF e.kind = "File" /\ child.okind = "Folder" THEN "EISDIR" ELSE ""

\* A faulty refresh, which never reloads.
NeverFetch(ino, i, force) == [ino |-> ino, err |-> "", req |-> FALSE]

BaseFileRefresh(ino, i, force) ==
    LET e == ino[i]
        expired == e.last_loaded = NoTime
                   \/ now - e.last_loaded > FILE_ATTRIBUTE_CACHE_TTL
    IN IF ~force /\ ~_is_new_file(e) /\ ~expired
       THEN [ino |-> ino, err |-> "", req |-> FALSE]
       ELSE LET ls == RemoteChildren(ino[e.parent])
                byName == _get_child_by_name(ls.list, name(e))
                byPath == _get_child_by_path(ls.list, _path(ino, e))
                child == IF byName # NoObj THEN byName ELSE byPath
            IN IF ~ls.ok THEN [ino |-> ino, err |-> "EIO", req |-> TRUE]
               ELSE IF child = NoObj THEN [ino |-> ino, err |-> "ENOENT", req |-> TRUE]
               ELSE IF _validate(e, child) # ""
                    THEN [ino |-> ino, err |-> _validate(e, child), req |-> TRUE]
               ELSE [ino |-> [ino EXCEPT ![i].updated = child,
                                         ![i].updated_name = NoName,
                                         ![i].last_loaded = now],
                     err |-> "", req |-> TRUE]

\* The end of FileInode.refresh, r being what BaseFileInode.refresh left: an
\* inode that is still a placeholder takes the object just loaded as its file.
Promote(i, r) ==
    IF r.err = "" /\ _is_new_file(r.ino[i])
    THEN [r EXCEPT !.ino = [r.ino EXCEPT ![i].file = r.ino[i].updated]]
    ELSE r

\* A faulty refresh, which never swaps the placeholder for the remote object.
FileRefreshNoSwap(ino, i, force) ==
    IF _is_new_file(ino[i]) /\ ~ino[i].invalidated
    THEN [ino |-> ino, err |-> "", req |-> FALSE]
    ELSE BaseFileRefresh(ino, i, force)

FileRefresh(ino, i, force) ==
    IF _is_new_file(ino[i]) /\ ~ino[i].invalidated
    THEN [ino |-> ino, err |-> "", req |-> FALSE]
    ELSE Promote(i, BaseFileRefresh(ino, i, force))

\* inode.refresh(context, force), by kind.
Refresh(ino, i, force) ==
    CASE ino[i].kind = "File"   -> FileRefresh(ino, i, force)
      [] ino[i].kind = "Folder" -> BaseFileRefresh(ino, i, force)
      [] OTHER -> [ino |-> ino, err |-> "", req |-> FALSE]

\* ------------------------------------------------------------ identity registry
_create_object_inode(parent, obj) ==
    CASE obj.okind = "Project"       -> Entity("Project", parent, obj, obj.attrs, NoTime)
      [] obj.okind = "AttrsEntry"    -> Entity("Attrs", parent, obj, 0, NoTime)
      [] obj.okind = "ChildrenEntry" -> Entity("Children", parent, obj, 0, NoTime)
      [] obj.okind = "LinkedEntry"   -> Entity("Linked", parent, obj, 0, NoTime)
      [] obj.okind = "Storage"       -> Entity("Storage", parent, obj, 0, NoTime)
      [] obj.okind = "Folder"        -> Entity("Folder", parent, obj, 0, now)
      [] OTHER                       -> Entity("File", parent, obj, 0, now)

\* self._inodes[n] = e
Install(ino, n, e) ==
    (n :> [e EXCEPT !.gen = IF n \in DOMAIN ino THEN ino[n].gen + 1 ELSE 1]) @@ ino

\* A faulty allocation, which starts its search at ROOT instead of offset_inode.
AllocFromRoot(ino) ==
    Min({n \in ROOT..(ROOT + 1 + Cardinality(DOMAIN ino)) : n \notin DOMAIN ino})

\* for inode in range(self.offset_inode, sys.maxsize): if inode not in self._inodes
AllocId(ino) ==
    Min({n \in (ROOT + 1)..(ROOT + 1 + Cardinality(DOMAIN ino)) : n \notin DOMAIN ino})

\* A faulty NewFile search, which never finds a placeholder.
NoNewFileByName(ino, p, n) == [ino |-> ino, ret |-> NoId]

_find_new_file_by_name(ino, p, n) ==
    LET cands == {i \in Live(ino) : /\ ino[i].kind = "File"
                                    /\ ino[i].parent = p
                                    /\ _is_new_file(ino[i])
                                    /\ name(ino[i]) = n}
    IN IF cands = {} THEN [ino |-> ino, ret |-> NoId]
       ELSE [ino |-> Refresh(ino, Min(cands), FALSE).ino, ret |-> Min(cands)]

\* ProjectInode.update_metadata on the project inode q.
UpdateMetadata(ino, q, attrs) ==
    [ino EXCEPT ![q].meta = attrs, ![q].file.attrs = attrs]

\* A faulty identity search, which never finds an inode by its path.
NoPathHits(ino, dpath) == {}

\* A faulty identity search, which does not skip removed inodes.
AnyPathHits(ino, dpath) == {i \in DOMAIN ino : path(ino, i) = dpath}

\* for inode in self._inodes.values(): if inode.removed: continue; if inode.path == ...
PathHits(ino, dpath) == {i \in Live(ino) : path(ino, i) = dpath}

\* A faulty end of _get_object_inode, which allocates whatever the NewFile
\* search returned.
AlwaysAllocate(ino, dummy, dpath, nf) ==
    [ino |-> Install(ino, AllocId(ino), dummy),
     ret |-> AllocId(ino), how |-> "alloc", dpath |-> dpath]

\* The end of _get_object_inode, nf being what _find_new_file_by_name returned:
\* the pending NewFile, or else a new inode under the first free number.
NewFileOrAllocate(ino, dummy, dpath, nf) ==
    IF nf.ret # NoId
    THEN [ino |-> nf.ino, ret |-> nf.ret, how |-> "newfile", dpath |-> dpath]
    ELSE [ino |-> Install(ino, AllocId(ino), dummy),
          ret |-> AllocId(ino), how |-> "alloc", dpath |-> dpath]

_get_object_inode(ino, p, obj) ==
    LET dummy == _create_object_inode(p, obj)
        dpath == PathOf(ino, dummy)
        hits == PathHits(ino, dpath)
    IN IF hits # {}
       THEN LET i == Min(hits)
            IN IF ino[i].kind = "Attrs" /\ dummy.kind = "Attrs"
               THEN [ino |-> [UpdateMetadata(ino, ino[i].parent, obj.attrs)
                                EXCEPT ![i].file = obj],
                     ret |-> i, how |-> "path", dpath |-> dpath]
               ELSE [ino |-> ino, ret |-> i, how |-> "path", dpath |-> dpath]
       ELSE NewFileOrAllocate(ino, dummy, dpath,
                              _find_new_file_by_name(ino, p, name(dummy)))

\* ------------------------------------------------------------ listing caches
\* A faulty cache, in which no entry is ever found.
NoCacheHas(c, k) == FALSE

\* cacheout.Cache.get: an entry older than its ttl is absent.
CacheHas(c, k) == k \in DOMAIN c /\ now < c[k].at + LIST_CACHE_TTL

CachePut(c, k, v) == (k :> [list |-> v, at |-> now]) @@ c

\* A faulty delete, which empties the cache.
CacheClear(c, k) == << >>

CacheDrop(c, k) == [x \in DOMAIN c \ {k} |-> c[x]]

\* cacheout.Cache.get deletes the entry it finds expired.
CacheTouch(c, k) == IF k \in DOMAIN c /\ ~CacheHas(c, k) THEN CacheDrop(c, k) ELSE c

World(ino, cr, pj, cc, lc) == [ino |-> ino, cr |-> cr, pj |-> pj, cc |-> cc, lc |-> lc]

Here == World(inodes, childRel, projCache, pcCache, plCache)

Listing(w, ok, list, fetched) == [w |-> w, ok |-> ok, list |-> list, fetched |-> fetched]

ProjectList(S) == [k \in 1..Len(SortedProjects(S)) |-> ProjectObj(SortedProjects(S)[k])]

_list_projects(w) ==
    IF mode # "all" THEN Listing(w, FALSE, << >>, FALSE)
    ELSE IF w.pj.at # NoTime /\ now - w.pj.at < LIST_CACHE_TTL
    THEN Listing(w, TRUE, w.pj.list, FALSE)
    ELSE Listing([w EXCEPT !.pj = [list |-> ProjectList(rnodes), at |-> now]],
                 TRUE, ProjectList(rnodes), TRUE)

RemoteSub(pid, S) == IF pid = RootProject THEN ProjectList(S) ELSE << >>

_list_child_projects(w, pid) ==
    IF CacheHas(w.cc, pid) THEN Listing(w, TRUE, w.cc[pid].list, FALSE)
    ELSE Listing([w EXCEPT !.cc = CachePut(w.cc, pid, RemoteSub(pid, rchild))],
                 TRUE, RemoteSub(pid, rchild), TRUE)

_list_linked_projects(w, pid) ==
    IF CacheHas(w.lc, pid) THEN Listing(w, TRUE, w.lc[pid].list, FALSE)
    ELSE Listing([w EXCEPT !.lc = CachePut(w.lc, pid, RemoteSub(pid, rlinked))],
                 TRUE, RemoteSub(pid, rlinked), TRUE)

\* A faulty listing of a project, which yields the storages first.
StoragesFirst(e, initial, storages) ==
    storages \o <<Obj("AttrsEntry", e.file.oid, ".attributes.json", <<>>, initial),
                  Obj("ChildrenEntry", e.file.oid, ".children", <<>>, 0),
                  Obj("LinkedEntry", e.file.oid, ".linked", <<>>, 0)>>

\* A faulty listing of a project, which yields the storages only.
StoragesOnly(e, initial, storages) == storages

\* What get_children_of yields for the project inode e: the three descriptors,
\* then the storages as project.storages yields them.
ProjectEntries(e, initial, storages) ==
    <<Obj("AttrsEntry", e.file.oid, ".attributes.json", <<>>, initial),
      Obj("ChildrenEntry", e.file.oid, ".children", <<>>, 0),
      Obj("LinkedEntry", e.file.oid, ".linked", <<>>, 0)>> \o storages

\* The ProjectInode branch of get_children_of.
ProjectChildrenList(w, p) ==
    LET e == w.ino[p]
        initial == IF e.file.attrs # 0 THEN e.file.attrs ELSE e.meta
        ino1 == IF initial # 0 THEN UpdateMetadata(w.ino, p, initial) ELSE w.ino
    IN Listing([w EXCEPT !.ino = ino1], TRUE,
               ProjectEntries(e, initial, RemoteStorages(e.file.oid)), TRUE)

\* FileContext.readdir(start_id): the entries of the listing from position
\* start_id on, in the order of the listing.
readdir(list, start) == [k \in 1..(Len(list) - start) |-> list[start + k]]

get_children_of(w, p) ==
    LET e == w.ino[p]
    IN CASE ~has_children(e) -> Listing(w, FALSE, << >>, FALSE)
         [] e.kind = "ProjectsRoot" -> _list_projects(w)
         [] e.kind = "Project"  -> ProjectChildrenList(w, p)
         [] e.kind = "Children" -> _list_child_projects(w, w.ino[e.parent].file.oid)
         [] e.kind = "Linked"   -> _list_linked_projects(w, w.ino[e.parent].file.oid)
         [] OTHER -> Listing(w, RemoteChildren(e).ok, RemoteChildren(e).list, TRUE)

\* What get_children_of(p) raises: ENOTDIR before any request, or the failure
\* of the request.
ChildrenError(w, p) ==
    IF ~has_children(w.ino[p]) THEN "ENOTDIR"
    ELSE IF ~get_children_of(w, p).ok THEN "EIO" ELSE ""

\* ------------------------------------------------------------ resolver
RECURSIVE ScanAborts(_, _, _, _)
\* A faulty scan, which gives up at the first child whose refresh fails.
ScanAborts(ino, children, k, n) ==
    IF k > Len(children) THEN [ino |-> ino, ret |-> NoId]
    ELSE LET r == Refresh(ino, children[k], FALSE)
         IN IF r.err # "" THEN [ino |-> ino, ret |-> NoId]
            ELSE IF name(r.ino[children[k]]) = n THEN [ino |-> r.ino, ret |-> children[k]]
            ELSE ScanAborts(r.ino, children, k + 1, n)

RECURSIVE CachedScan(_, _, _, _)
\* The loop over cache.children of find_by_name, from position k.
CachedScan(ino, children, k, n) ==
    IF k > Len(children) THEN [ino |-> ino, ret |-> NoId]
    ELSE LET r == Refresh(ino, children[k], FALSE)
         IN IF r.err # "" THEN CachedScan(ino, children, k + 1, n)
            ELSE IF name(r.ino[children[k]]) = n THEN [ino |-> r.ino, ret |-> children[k]]
            ELSE CachedScan(r.ino, children, k + 1, n)

RECURSIVE ListingLoop(_, _, _, _, _, _, _)
\* The loop over get_children_of(parent) of find_by_name, from position k.
ListingLoop(ino, p, list, k, n, children, found) ==
    IF k > Len(list) THEN [ino |-> ino, children |-> children, found |-> found]
    ELSE LET r == _get_object_inode(ino, p, list[k])
         IN ListingLoop(r.ino, p, list, k + 1, n, Append(children, r.ret),
                        IF list[k].name = n THEN list[k] ELSE found)

Outcome(w, ret, err, fetched) == [w |-> w, ret |-> ret, err |-> err, fetched |-> fetched]

\* The part of find_by_name after the cached scan ("Request to GRDM").
\* The listing ls of p has been walked: the inodes of its children become the
\* cached children of p, and r, what the last lookup returned, is the answer.
Answer(ls, p, children, r) ==
    Outcome([ls.w EXCEPT !.ino = r.ino, !.cr = CachePut(ls.w.cr, p, children)],
            r.ret, "", ls.fetched)

\* After the loop lp over the listing: the inode of the object found, or else
\* a pending NewFile of that name.
Listed(ls, p, n, lp) ==
    Answer(ls, p, lp.children,
           IF lp.found # NoObj THEN _get_object_inode(lp.ino, p, lp.found)
           ELSE _find_new_file_by_name(lp.ino, p, n))

\* A faulty end of the listing step, which caches an empty list for a request
\* that failed.
FetchedInstalls(ls, p, n) ==
    IF ~ls.ok
    THEN Outcome([ls.w EXCEPT !.cr = CachePut(ls.w.cr, p, << >>)], NoId, "EIO", ls.fetched)
    ELSE Listed(ls, p, n, ListingLoop(ls.w.ino, p, ls.list, 1, n, << >>, NoObj))

\* The listing ls has been requested; a failed request raises before anything
\* is cached.
Fetched(ls, p, n) ==
    IF ~ls.ok THEN Outcome(ls.w, NoId, "EIO", ls.fetched)
    ELSE Listed(ls, p, n, ListingLoop(ls.w.ino, p, ls.list, 1, n, << >>, NoObj))

FreshLookup(w, p, n) == Fetched(get_children_of(w, p), p, n)

\* After the cached scan sc (no match where nothing is cached): its match, or
\* else the fresh lookup.
Scanned(w, p, n, sc) ==
    IF sc.ret # NoId
    THEN Outcome([w EXCEPT !.ino = sc.ino], sc.ret, "", FALSE)
    ELSE FreshLookup([w EXCEPT !.ino = sc.ino, !.cr = CacheTouch(w.cr, p)], p, n)

find_by_name(w, p, n) ==
    IF ~has_children(w.ino[p]) THEN Outcome(w, NoId, "ENOTDIR", FALSE)
    ELSE Scanned(w, p, n,
                 IF CacheHas(w.cr, p) THEN CachedScan(w.ino, w.cr[p].list, 1, n)
                 ELSE [ino |-> w.ino, ret |-> NoId])

\* The awaits of the listing loop of find_by_name at which a run can be
\* cancelled, given as the number of children already materialised: a project
\* yields its three descriptors and then awaits project.storages; a list of
\* projects is awaited as a whole; the children of a storage or folder arrive
\* page by page.
SuspensionPoints(e, list) ==
    CASE e.kind = "Project" -> {j \in {3} : j <= Len(list)}
      [] e.kind \in {"ProjectsRoot", "Children", "Linked"} -> {0}
      [] OTHER -> 0..Len(list)

\* find_by_name(p, n) cancelled in its listing loop after k children have been
\* materialised, sc being what the cached scan left: the exception leaves the
\* function before the cache is set.
CancelledInListing(w, p, n, k, sc) ==
    LET ls == get_children_of([w EXCEPT !.ino = sc.ino, !.cr = CacheTouch(w.cr, p)], p)
        lp == ListingLoop(ls.w.ino, p, SubSeq(ls.list, 1, k), 1, n, << >>, NoObj)
    IN [ls.w EXCEPT !.ino = lp.ino]

\* ------------------------------------------------------------ operations
Fits(ino, cap) == Cardinality(DOMAIN ino) <= cap

\* What no later step can read is dropped from the state that is kept, so that
\* entities no call can tell apart are one state: of a NewFile placeholder the
\* recorded name and the load time (FileInode.name and BaseFileInode.refresh
\* do not read them while _is_new_file, and a promotion overwrites both); of any
\* other File or Folder the _invalidated flag (read only while _is_new_file) and
\* the object that _updated has superseded (only _latest is read).
ForgetEntity(e) ==
    IF _is_new_file(e)
    THEN [e EXCEPT !.updated_name = NoName, !.last_loaded = NoTime]
    ELSE IF e.kind \in {"File", "Folder"}
    THEN [e EXCEPT !.invalidated = FALSE, !.file = _latest(e), !.updated = NoObj]
    ELSE e

Forget(ino) == [i \in DOMAIN ino |-> ForgetEntity(ino[i])]

\* The inode numbers a caller may pass.
Numbers == 0..(MaxPairInodes + 1)

\* A faulty get, which takes every number for a registered one.
GetAny(ino, n) == n

\* get(n) where it does not build the root: the inode registered under n, or
\* None.
get(ino, n) == IF n \in DOMAIN ino THEN n ELSE NoId

Get(n) ==
    /\ n # ROOT \/ ROOT \in DOMAIN inodes
    /\ get(inodes, n) \in DOMAIN inodes \cup {NoId}
    /\ UNCHANGED vars

\* What _get_osfproject raises before its first await.
_get_osfproject_error(m) == IF m = "unset" THEN "ValueError" ELSE ""

\* get(ROOT) of a mount without a project id: _get_osfproject raises, nothing
\* is installed.
GetRootUnset ==
    /\ mode = "unset"
    /\ ROOT \notin DOMAIN inodes
    /\ _get_osfproject_error(mode) # ""
    /\ UNCHANGED vars

\* get(ROOT) of a single-project mount whose await of _get_osfproject raises
\* what the remote client raised: the call ends and nothing is installed.
GetRootFail ==
    /\ rootPending > 0
    /\ rootPending' = rootPending - 1
    /\ UNCHANGED <<mode, now, inodes, cacheVars, remoteVars, histVars, pageVars, attrVars>>

\* get(ROOT) with list_all_projects: the root is built and installed at once.
GetRootAll ==
    /\ mode = "all"
    /\ ROOT \notin DOMAIN inodes
    /\ inodes' = Install(inodes, ROOT, Entity("ProjectsRoot", NoId, NoObj, 0, NoTime))
    /\ UNCHANGED <<mode, now, cacheVars, rootPending, remoteVars, histVars, pageVars, attrVars>>

\* get(ROOT) of a single-project mount, up to its await of _get_osfproject; at
\* most `tasks` such calls are suspended there at once.
GetRootBegin(tasks) ==
    /\ mode = "single"
    /\ ROOT \notin DOMAIN inodes
    /\ rootPending < tasks
    /\ rootPending' = rootPending + 1
    /\ UNCHANGED <<mode, now, inodes, cacheVars, remoteVars, histVars, pageVars, attrVars>>

\* get(ROOT) of a single-project mount, from the await to its return.
GetRootFinish ==
    /\ rootPending > 0
    /\ rootPending' = rootPending - 1
    /\ inodes' = Install(inodes, ROOT,
                         Entity("Project", NoId,
                                Obj("Project", RootProject, RootProject, <<>>,
                                    RemoteAttrs(RootProject)),
                                RemoteAttrs(RootProject), NoTime))
    /\ UNCHANGED <<mode, now, cacheVars, remoteVars, histVars, pageVars, attrVars>>

LookupNames(e) ==
    CASE e.kind = "ProjectsRoot" -> Projects
      [] e.kind = "Project" -> {StorageName, ".attributes.json", ".children", ".linked"}
      [] e.kind \in {"Children", "Linked"} -> IF mode = "all" THEN {"p2"} ELSE {}
      [] e.kind \in {"Storage", "Folder"} -> Names
      [] OTHER -> {"a"}

FindByName(p, n, cap) ==
    \E r \in {find_by_name(Here, p, n)} :
       /\ Fits(r.w.ino, cap)
       /\ inodes' = Forget(r.w.ino)
       /\ childRel' = r.w.cr
       /\ projCache' = r.w.pj
       /\ pcCache' = r.w.cc
       /\ plCache' = r.w.lc
       /\ UNCHANGED <<mode, now, rootPending, remoteVars, histVars, pageVars, attrVars>>

NewFile(n) == Obj("NewFile", "", n, <<>>, 0)

Register(p, n, cap) ==
    \E r \in {_get_object_inode(inodes, p, NewFile(n))} :
       /\ Fits(r.ino, cap)
       /\ inodes' = Forget(r.ino)
       /\ UNCHANGED <<mode, now, cacheVars, rootPending, remoteVars, histVars, pageVars, attrVars>>

\* inode.invalidate(name), by kind.
EntityInvalidate(ino, i, nm) ==
    CASE ino[i].kind = "File" ->
           [ino EXCEPT ![i].last_loaded = NoTime, ![i].updated_name = nm,
                       ![i].invalidated = TRUE]
      [] ino[i].kind = "Folder" ->
           [ino EXCEPT ![i].last_loaded = NoTime, ![i].updated_name = nm]
      [] ino[i].kind = "Attrs" ->
           [ino EXCEPT ![i].file.attrs = ino[ino[i].parent].meta]
      [] OTHER -> ino

\* Inodes.invalidate: the listing-cache entry of the inode, then the entity.
invalidate(w, i, nm) ==
    [w EXCEPT !.cr = CacheDrop(w.cr, i), !.ino = EntityInvalidate(w.ino, i, nm)]

\* A faulty invalidate, which does not look the number up.
InvalidateUnchecked(w, n, nm) == [w |-> [w EXCEPT !.cr = CacheDrop(w.cr, n)], err |-> ""]

\* Inodes.invalidate called with an integer: a number that is not registered
\* raises ValueError before anything is touched.
InvalidateNumber(w, n, nm) ==
    IF n \notin DOMAIN w.ino THEN [w |-> w, err |-> "ValueError"]
    ELSE [w |-> invalidate(w, n, nm), err |-> ""]

\* invalidate(n, nm) with a number that is not registered.
InvalidateUnknown(n, nm) ==
    \E r \in {InvalidateNumber(Here, n, nm)} :
       /\ n \notin DOMAIN inodes
       /\ childRel' = r.w.cr
       /\ inodes' = Forget(r.w.ino)
       /\ UNCHANGED <<mode, now, projCache, pcCache, plCache, rootPending, remoteVars,
                      histVars, pageVars, attrVars>>

Invalidate(i, nm) ==
    /\ childRel' = invalidate(Here, i, nm).cr
    /\ inodes' = Forget(invalidate(Here, i, nm).ino)
    /\ UNCHANGED <<mode, now, projCache, pcCache, plCache, rootPending, remoteVars,
                   histVars, pageVars, attrVars>>

RefreshCall(i, force) ==
    \E r \in {Refresh(inodes, i, force)} :
       /\ inodes' = Forget(r.ino)
       /\ UNCHANGED <<mode, now, cacheVars, rootPending, remoteVars, histVars, pageVars, attrVars>>

\* BaseInode.remove
MarkRemoved(i) ==
    /\ ~inodes[i].removed
    /\ inodes' = [inodes EXCEPT ![i].removed = TRUE]
    /\ UNCHANGED <<mode, now, cacheVars, rootPending, remoteVars, histVars, pageVars, attrVars>>

\* The clock advances between calls.
Tick ==
    /\ now < MaxTime
    /\ now' = now + TickStep
    /\ UNCHANGED <<mode, inodes, cacheVars, rootPending, remoteVars, histVars, pageVars, attrVars>>

\* ------------------------------------------------------------ the remote changes
NameFree(nm) == \A o \in Objs : rname[o] # nm

RemoteCreate(o, nm) ==
    /\ mode = "single"
    /\ rname[o] = NoName
    /\ NameFree(nm)
    /\ rname' = [rname EXCEPT ![o] = nm]
    /\ UNCHANGED <<mode, now, inodes, cacheVars, rootPending, rnodes, rchild, rlinked,
                   histVars, pageVars, attrVars>>

RemoteDelete(o) ==
    /\ mode = "single"
    /\ rname[o] # NoName
    /\ rname' = [rname EXCEPT ![o] = NoName]
    /\ UNCHANGED <<mode, now, inodes, cacheVars, rootPending, rnodes, rchild, rlinked,
                   histVars, pageVars, attrVars>>

RemoteRename(o, nm) ==
    /\ mode = "single"
    /\ rname[o] # NoName
    /\ NameFree(nm)
    /\ rname' = [rname EXCEPT ![o] = nm]
    /\ UNCHANGED <<mode, now, inodes, cacheVars, rootPending, rnodes, rchild, rlinked,
                   histVars, pageVars, attrVars>>

Toggle(S, x) == IF x \in S THEN S \ {x} ELSE S \cup {x}

RemoteNodes ==
    /\ mode = "all"
    /\ rnodes' = Toggle(rnodes, "p2")
    /\ UNCHANGED <<mode, now, inodes, cacheVars, rootPending, rname, rchild, rlinked,
                   histVars, pageVars, attrVars>>

RemoteChildNodes ==
    /\ mode = "all"
    /\ rchild' = Toggle(rchild, "p2")
    /\ UNCHANGED <<mode, now, inodes, cacheVars, rootPending, rname, rnodes, rlinked,
                   histVars, pageVars, attrVars>>

RemoteLinkedNodes ==
    /\ mode = "all"
    /\ rlinked' = Toggle(rlinked, "p2")
    /\ UNCHANGED <<mode, now, inodes, cacheVars, rootPending, rname, rnodes, rchild,
                   histVars, pageVars, attrVars>>

FileKinds == {"File", "Folder"}

\* The inodes a caller can name: every call but get(ROOT) takes an inode that an
\* earlier call returned, and the calls explored start once no get(ROOT) is
\* suspended.
Handles == IF rootPending = 0 THEN DOMAIN inodes ELSE {}

Next ==
    \/ GetRootAll
    \/ GetRootBegin(MaxRootTasks)
    \/ GetRootFinish
    \/ GetRootFail
    \/ GetRootUnset
    \/ \E n \in Numbers : Get(n)
    \/ \E n \in Numbers : InvalidateUnknown(n, NoName)
    \/ \E p \in Handles : \E n \in LookupNames(inodes[p]) : FindByName(p, n, MaxInodes)
    \/ \E p \in Handles : \E n \in Names :
           inodes[p].kind = "Storage" /\ Register(p, n, MaxInodes)
    \/ \E i \in Handles : \E nm \in Names \cup {NoName} :
           (nm = NoName \/ inodes[i].kind \in FileKinds) /\ Invalidate(i, nm)
    \/ \E i \in Handles : \E force \in BOOLEAN :
           inodes[i].kind \in FileKinds /\ RefreshCall(i, force)
    \/ \E i \in Handles : inodes[i].kind \in FileKinds /\ MarkRemoved(i)
    \/ Tick
    \/ \E o \in Objs : \E nm \in Names : RemoteCreate(o, nm)
    \/ \E o \in Objs : RemoteDelete(o)
    \/ \E o \in Objs : \E nm \in Names : RemoteRename(o, nm)
    \/ RemoteNodes
    \/ RemoteChildNodes
    \/ RemoteLinkedNodes

\* The whole inode layer under every call of its interface, with room for one
\* file or folder below the storage.
Spec == Init /\ [][Next]_vars

\* ------------------------------------------------------------ two files
\* A single-project mount with room for two files or folders below the storage.
\* The caller looks names up, registers, refreshes and removes; it invalidates
\* directories only, and its get(ROOT) calls do not overlap.
InitPair == Init /\ mode = "single"

NextPair ==
    \/ GetRootBegin(1)
    \/ GetRootFinish
    \/ \E p \in Handles : \E n \in LookupNames(inodes[p]) :
           FindByName(p, n, MaxPairInodes)
    \/ \E p \in Handles : \E n \in Names :
           inodes[p].kind = "Storage" /\ Register(p, n, MaxPairInodes)
    \/ \E i \in Handles : inodes[i].kind \notin FileKinds /\ Invalidate(i, NoName)
    \/ \E i \in Handles : \E force \in BOOLEAN :
           inodes[i].kind \in FileKinds /\ RefreshCall(i, force)
    \/ \E i \in Handles : inodes[i].kind \in FileKinds /\ MarkRemoved(i)
    \/ \E o \in Objs : \E nm \in Names : RemoteCreate(o, nm)
    \/ \E o \in Objs : RemoteDelete(o)
    \/ \E o \in Objs : \E nm \in Names : RemoteRename(o, nm)

SpecPair == InitPair /\ [][NextPair]_vars

\* ------------------------------------------------------------ resolve calls
Dirs == {p \in DOMAIN inodes : has_children(inodes[p])}

\* The objects a listing of p returns now.
ListedNow(p) ==
    {get_children_of(Here, p).list[k] : k \in 1..Len(get_children_of(Here, p).list)}

\* One call of _get_object_inode(parent, obj) by itself; register(parent, name)
\* is the call with obj = NewFile(parent, name). The history records the
\* canonical path of the probe, and whether a pending NewFile answered it.
Probe(p, obj, cap) ==
    \E r \in {_get_object_inode(inodes, p, obj)} :
       /\ Fits(r.ino, cap)
       /\ inodes' = Forget(r.ino)
       /\ probes' = probes \cup {r.dpath}
       /\ absorbed' = CASE r.how = "newfile" -> absorbed \cup {r.dpath}
                        [] r.how = "alloc"   -> absorbed \ {r.dpath}
                        [] OTHER             -> absorbed
       /\ UNCHANGED <<mode, now, cacheVars, rootPending, remoteVars, fetchedAt, pageVars, attrVars>>

NextAlloc ==
    \/ GetRootAll
    \/ GetRootBegin(1)
    \/ GetRootFinish
    \/ \E p \in Handles \cap Dirs : \E obj \in ListedNow(p) : Probe(p, obj, MaxPairInodes)
    \/ \E p \in Handles : \E n \in Names :
           inodes[p].kind = "Storage" /\ Probe(p, NewFile(n), MaxPairInodes)
    \/ \E o \in Objs : \E nm \in Names : RemoteCreate(o, nm)
    \/ \E o \in Objs : RemoteDelete(o)
    \/ \E o \in Objs : \E nm \in Names : RemoteRename(o, nm)
    \/ RemoteNodes
    \/ RemoteChildNodes
    \/ RemoteLinkedNodes

\* Sequences of _get_object_inode and register calls on a mount, the remote
\* changing in between.
SpecAlloc == Init /\ [][NextAlloc]_vars

\* ------------------------------------------------------------ the clock
\* When the remote sent the listing that get_children_of(p) returns without a
\* request: the load time of the project list it is served from.
ServedFrom(p) ==
    CASE inodes[p].kind = "ProjectsRoot" -> projCache.at
      [] inodes[p].kind = "Children" -> pcCache[inodes[inodes[p].parent].file.oid].at
      [] inodes[p].kind = "Linked" -> plCache[inodes[inodes[p].parent].file.oid].at
      [] OTHER -> now

\* Whether the call with outcome r has set _child_relations[p].
Relisted(r, p) ==
    /\ p \in DOMAIN r.w.cr
    /\ p \in DOMAIN childRel => r.w.cr[p] # childRel[p]

\* find_by_name(p, n), the history recording how old the listing is that the
\* call installs in _child_relations.
FindByNameTimed(p, n, cap) ==
    \E r \in {find_by_name(Here, p, n)} :
       /\ Fits(r.w.ino, cap)
       /\ inodes' = Forget(r.w.ino)
       /\ childRel' = r.w.cr
       /\ projCache' = r.w.pj
       /\ pcCache' = r.w.cc
       /\ plCache' = r.w.lc
       /\ fetchedAt' = IF Relisted(r, p)
                       THEN (p :> (IF r.fetched THEN now ELSE ServedFrom(p))) @@ fetchedAt
                       ELSE fetchedAt
       /\ UNCHANGED <<mode, now, rootPending, remoteVars, probes, absorbed, pageVars, attrVars>>

\* The clock advances between calls, in steps that let a listing be installed
\* from a project list that is not fresh and be read when that list is stale.
Elapse ==
    /\ now < ClockMax
    /\ now' = now + ClockStep
    /\ UNCHANGED <<mode, inodes, cacheVars, rootPending, remoteVars, histVars, pageVars, attrVars>>

InitClock == Init /\ mode = "all"

ProjectDirs == {"ProjectsRoot", "Project", "Children", "Linked"}

NextClock ==
    \/ GetRootAll
    \/ \E p \in Handles : \E n \in LookupNames(inodes[p]) :
           inodes[p].kind \in ProjectDirs /\ FindByNameTimed(p, n, MaxInodes)
    \/ \E i \in Handles : inodes[i].kind \in ProjectDirs /\ Invalidate(i, NoName)
    \/ Elapse
    \/ RemoteNodes
    \/ RemoteChildNodes
    \/ RemoteLinkedNodes

\* A mount of all projects under lookups and invalidations of its project
\* directories, the clock running past LIST_CACHE_TTL.
SpecClock == InitClock /\ [][NextClock]_vars

\* ------------------------------------------------------------ project lists
\* A node of a listing page: its type, attributes.registration and id.
Node(type, registration, id) == [type |-> type, registration |-> registration, id |-> id]

NoNode == Node("None", FALSE, "")

\* The nodes a page of the remote may hold.
NodeSet ==
    {Node("nodes", r, id) : r \in BOOLEAN, id \in {"", "p1", "p2"}}
        \cup {Node("registrations", FALSE, "p1")}

Urls == 1..MaxPages

\* The pages the remote may serve: the nodes of payload['data'] and links.next.
PageSet ==
    [data : UNION {[1..k -> NodeSet] : k \in 0..MaxPageLen}, next : Urls \cup {NoUrl}]

\* A faulty _build_project_from_node, which takes every node for a project.
BuildAny(node) == node

\* The node a Project is built from, None for a node that is skipped.
_build_project_from_node(node) ==
    IF node.type # "nodes" THEN NoNode
    ELSE IF node.registration THEN NoNode
    ELSE IF node.id = "" THEN NoNode
    ELSE node

RECURSIVE Collect(_, _, _)
\* The body of "async for node in self._paginate_nodes(...)" for the nodes of
\* one page, from position k: projects[project_id] = project.
Collect(projects, data, k) ==
    IF k > Len(data) THEN projects
    ELSE LET project == _build_project_from_node(data[k])
         IN IF project = NoNode \/ project.id = ""
            THEN Collect(projects, data, k + 1)
            ELSE Collect((project.id :> project) @@ projects, data, k + 1)

\* _list_projects, _list_child_projects or _list_linked_projects, up to its
\* first request.
InitPages ==
    /\ InitRegistry
    /\ mode = "all"
    /\ paging \in [pages : [Urls -> PageSet], next_url : {1}, visited : {{}},
                    projects : {<< >>}, pc : {"loop"}, issued : {{}}, reissued : {{}}]
    /\ reading = NoReading

\* A faulty guard, which stops at a missing link only.
StopsAtNull(next_link, visited) == next_link = NoUrl

\* if not next_link or next_link in visited: break
StopsAt(next_link, visited) == next_link = NoUrl \/ next_link \in visited

\* The request of url, recorded: the URLs requested so far, and those
\* requested more than once.
Issue(pg, url) ==
    [pg EXCEPT !.issued = pg.issued \cup {url},
               !.reissued = IF url \in pg.issued THEN pg.reissued \cup {url}
                            ELSE pg.reissued]

\* One turn of the loop of _paginate_nodes: the page at next_url is fetched,
\* the caller takes its nodes, and links.next is followed unless it is missing
\* or has been visited.
PaginateNodes ==
    /\ paging.pc = "loop"
    /\ paging.next_url # NoUrl
    /\ \E page \in {paging.pages[paging.next_url]} :
          paging' =
             IF StopsAt(page.next, paging.visited)
             THEN [Issue(paging, paging.next_url) EXCEPT
                       !.projects = Collect(paging.projects, page.data, 1),
                       !.pc = "collected"]
             ELSE [Issue(paging, paging.next_url) EXCEPT
                       !.projects = Collect(paging.projects, page.data, 1),
                       !.visited = paging.visited \cup {paging.next_url},
                       !.next_url = page.next]
    /\ UNCHANGED <<mode, now, inodes, cacheVars, rootPending, remoteVars, histVars,
                   attrVars>>

\* ordered = sorted(projects.values(), key=id); the list is cached and returned.
ListProjectsFinish ==
    /\ paging.pc = "collected"
    /\ projCache' = [list |-> ProjectList(DOMAIN paging.projects), at |-> now]
    /\ paging' = [paging EXCEPT !.pc = "done"]
    /\ UNCHANGED <<mode, now, inodes, childRel, pcCache, plCache, rootPending,
                   remoteVars, histVars, attrVars>>

NextPages == PaginateNodes \/ ListProjectsFinish

\* One listing of projects, for every arrangement of pages the remote may serve.
SpecPages == InitPages /\ [][NextPages]_vars

\* The same where every request returns and the task is scheduled on.
SpecPagesFair ==
    SpecPages /\ WF_vars(PaginateNodes) /\ WF_vars(ListProjectsFinish)

\* ------------------------------------------------------------ .attributes.json
\* The dictionaries /nodes/p1 may serve, by version: version 0 is the empty
\* dictionary, version 1 has a title, later versions a longer title and a
\* second key.
AttrDict(v) ==
    CASE v = 0 -> << >>
      [] v = 1 -> [title |-> <<"t">>]
      [] OTHER -> [public |-> <<"n">>, title |-> [k \in 1..v |-> "t"]]

\* The keys in ascending order (sort_keys=True), and their characters.
SortedKeys == <<"public", "title">>

Chars(key) ==
    IF key = "public" THEN <<"p", "u", "b", "l", "i", "c">>
    ELSE <<"t", "i", "t", "l", "e">>

Quote(cs) == <<"\"">> \o cs \o <<"\"">>

RECURSIVE Items(_, _, _)
\* The items of json.dumps(d, sort_keys=True, indent=2): each on a line of its
\* own behind two spaces, a comma after every item but the last.
Items(d, keys, first) ==
    IF keys = << >> THEN << >>
    ELSE IF Head(keys) \notin DOMAIN d THEN Items(d, Tail(keys), first)
    ELSE (IF first THEN << >> ELSE <<",">>)
         \o <<"\n", " ", " ">> \o Quote(Chars(Head(keys)))
         \o <<":", " ">> \o Quote(d[Head(keys)])
         \o Items(d, Tail(keys), FALSE)

\* json.dumps(d, sort_keys=True, indent=2).encode('utf-8'), byte by byte.
dumps(d) ==
    IF DOMAIN d = {} THEN <<"{", "}">>
    ELSE <<"{">> \o Items(d, SortedKeys, TRUE) \o <<"\n", "}">>

\* ProjectAttributesInode.size
size(e) == Len(dumps(AttrDict(e.file.attrs)))

\* The remote attributes of the project change; the versions are numbered in
\* the order in which the remote comes to hold them.
RemoteSetAttrs(v) ==
    /\ mode = "single"
    /\ reading.remote < v
    /\ reading' = [reading EXCEPT !.remote = v]
    /\ UNCHANGED <<mode, now, inodes, cacheVars, rootPending, remoteVars, histVars,
                   pageVars>>

\* set_content: the reads under way no longer run on the descriptor the inode
\* holds.
Detach(rd, replaced) ==
    IF replaced
    THEN [rd EXCEPT !.reads = [t \in DOMAIN rd.reads |-> [rd.reads[t] EXCEPT !.held = FALSE]]]
    ELSE rd

\* Whether materialising the objects objs under p reaches set_content: one of
\* them is the descriptor of .attributes.json and p has that inode already.
SetsContent(ino, p, objs) ==
    /\ \E j \in DOMAIN objs : objs[j].okind = "AttrsEntry"
    /\ \E i \in Live(ino) : ino[i].kind = "Attrs" /\ ino[i].parent = p

\* write_to of the descriptor of inode i up to its await: _fetch_node_attributes
\* has sent its request, which the remote answers with what it holds. The
\* read takes the first free slot.
ReadBegin(t, i) ==
    /\ reading.reads[t] = NoRead
    /\ \A u \in 1..(t - 1) : reading.reads[u] # NoRead
    /\ inodes[i].kind = "Attrs"
    /\ reading' = [reading EXCEPT
                      !.reads[t] = [ino |-> i, held |-> TRUE, got |-> reading.remote]]
    /\ UNCHANGED <<mode, now, inodes, cacheVars, rootPending, remoteVars, histVars,
                   pageVars>>

\* write_to from the await on, attrs being what was fetched: fetch_metadata
\* and write_to store attrs on the project inode, write_to on its own
\* descriptor, which is the one inode i holds if held.
write_to(ino, i, held, attrs) ==
    LET ino1 == UpdateMetadata(ino, ino[i].parent, attrs)
    IN [ino |-> IF held THEN [ino1 EXCEPT ![i].file.attrs = attrs] ELSE ino1,
        data |-> dumps(AttrDict(attrs))]

ReadFinish(t) ==
    /\ reading.reads[t] # NoRead
    /\ \E r \in {write_to(inodes, reading.reads[t].ino, reading.reads[t].held,
                          reading.reads[t].got)} :
          /\ inodes' = r.ino
          /\ reading' = [reading EXCEPT !.reads[t] = NoRead]
    /\ UNCHANGED <<mode, now, cacheVars, rootPending, remoteVars, histVars, pageVars>>

\* find_by_name(p, n) up to an await of its listing loop: the cached scan has
\* found nothing, the listing has been requested and k of its children have
\* been materialised.
LookupBegin(p, n, k, cap) ==
    /\ reading.lookup = NoLookup
    /\ has_children(inodes[p])
    /\ \E sc \in {IF CacheHas(childRel, p) THEN CachedScan(inodes, childRel[p].list, 1, n)
                  ELSE [ino |-> inodes, ret |-> NoId]} :
          /\ sc.ret = NoId
          /\ \E ls \in {get_children_of([Here EXCEPT !.ino = sc.ino,
                                                     !.cr = CacheTouch(childRel, p)], p)} :
                /\ ls.ok
                /\ k \in SuspensionPoints(inodes[p], ls.list)
                /\ \E lp \in {ListingLoop(ls.w.ino, p, SubSeq(ls.list, 1, k), 1, n,
                                          << >>, NoObj)} :
                      /\ Fits(lp.ino, cap)
                      /\ inodes' = Forget(lp.ino)
                      /\ childRel' = ls.w.cr
                      /\ projCache' = ls.w.pj
                      /\ pcCache' = ls.w.cc
                      /\ plCache' = ls.w.lc
                      /\ reading' =
                            [Detach(reading, SetsContent(ls.w.ino, p, SubSeq(ls.list, 1, k)))
                               EXCEPT !.lookup = [p |-> p, n |-> n, list |-> ls.list,
                                                  k |-> k, children |-> lp.children,
                                                  found |-> lp.found]]
    /\ UNCHANGED <<mode, now, rootPending, remoteVars, histVars, pageVars>>

\* The object `found` refers to, as it is when the call resumes: a descriptor
\* of .attributes.json that the loop has materialised is the very object the
\* inode holds, so it carries what a read has stored on it since.
FoundNow(ino, p, found) ==
    LET held == {i \in Live(ino) : ino[i].kind = "Attrs" /\ ino[i].parent = p}
    IN IF found.okind = "AttrsEntry" /\ held # {}
       THEN [found EXCEPT !.attrs = ino[Min(held)].file.attrs]
       ELSE found

\* The suspended find_by_name from its await to its return: the rest of the
\* listing is materialised, the list is cached, and the object found is
\* resolved once more.
Resume(w, lk) ==
    Listed(Listing(w, TRUE, lk.list, TRUE), lk.p, lk.n,
           ListingLoop(w.ino, lk.p, lk.list, lk.k + 1, lk.n, lk.children,
                       FoundNow(w.ino, lk.p, lk.found)))

LookupFinish(cap) ==
    /\ reading.lookup # NoLookup
    /\ \E r \in {Resume(Here, reading.lookup)} :
          /\ Fits(r.w.ino, cap)
          /\ inodes' = Forget(r.w.ino)
          /\ childRel' = r.w.cr
          /\ reading' =
                [Detach(reading,
                        SetsContent(inodes, reading.lookup.p,
                                    SubSeq(reading.lookup.list, reading.lookup.k + 1,
                                           Len(reading.lookup.list))))
                   EXCEPT !.lookup = NoLookup]
    /\ UNCHANGED <<mode, now, projCache, pcCache, plCache, rootPending, remoteVars,
                   histVars, pageVars>>

InitAsync == Init /\ mode = "single"

NextAsync ==
    \/ GetRootBegin(1)
    \/ GetRootFinish
    \/ \E v \in 1..MaxAttrs : RemoteSetAttrs(v)
    \/ \E t \in 1..MaxReads : \E i \in Live(inodes) : ReadBegin(t, i)
    \/ \E t \in 1..MaxReads : ReadFinish(t)
    \/ \E p \in Live(inodes) : \E n \in LookupNames(inodes[p]) :
          \E k \in 0..MaxPairInodes : LookupBegin(p, n, k, MaxPairInodes)
    \/ LookupFinish(MaxPairInodes)
    \/ \E i \in Live(inodes) : Invalidate(i, NoName)
    \/ RemoteCreate("o1", "a")
    \/ RemoteDelete("o1")

\* A single-project mount on which calls overlap: reads of .attributes.json
\* and a find_by_name are suspended in their awaits while other calls run.
SpecAsync == InitAsync /\ [][NextAsync]_vars

\* ------------------------------------------------------------ claims
PathsUnique(ino) ==
    \A i \in Live(ino) : \A j \in Live(ino) : path(ino, i) = path(ino, j) => i = j

\* C1: in every reachable state no two distinct live registered inodes have the
\* same canonical path.
C1_LivePathsUnique == PathsUnique(inodes)

\* Inode k of registry ino stands for an object that p's listing returns now
\* under the name n and under the canonical path k has.
StillListed(ino, p, k, n) ==
    \E c \in ListedNow(p) :
        /\ c.name = n
        /\ PathOf(ino, _create_object_inode(p, c)) = path(ino, k)

\* find_by_name(p, n) from a fresh listing, then the same lookup answered (a)
\* from the listing cache and (b) from a fresh listing after invalidate(p): do
\* both return the inode the first lookup returned?
StableAfter(p, n) ==
    LET first  == find_by_name(invalidate(Here, p, NoName), p, n)
        k      == first.ret
        cached == find_by_name(first.w, p, n)
        fresh  == find_by_name(invalidate(first.w, p, NoName), p, n)
    IN (/\ first.err = ""
        /\ k # NoId
        /\ ~first.w.ino[k].removed
        /\ StillListed(first.w.ino, p, k, n))
       => (cached.ret = k /\ fresh.ret = k)

\* C2: once find_by_name(p, n) has returned inode k, k is live and the remote
\* object keeps its name and path, every later find_by_name(p, n) returns k,
\* from the listing cache as well as from a fresh listing.
C2_IdentityStable ==
    rootPending = 0 => \A p \in Dirs : \A n \in LookupNames(inodes[p]) : StableAfter(p, n)

\* The smallest integer >= ROOT + 1 that is no key of registry ino.
Smallest(ino) ==
    CHOOSE n \in (ROOT + 1)..(ROOT + 1 + Cardinality(DOMAIN ino)) :
        /\ n \notin DOMAIN ino
        /\ \A m \in (ROOT + 1)..(n - 1) : m \in DOMAIN ino

RootKinds == {"ProjectsRoot", "Project"}

\* ROOT is bound to a root entity only, and a root entity to ROOT only.
RootReserved(ino) ==
    \A n \in DOMAIN ino :
        /\ n = ROOT => ino[n].parent = NoId /\ ino[n].kind \in RootKinds
        /\ n # ROOT => ino[n].parent \in DOMAIN ino

\* The numbers a step binds, get(ROOT) aside, are the smallest free ones, taken
\* one after the other.
AllocatesSmallest ==
    LET new == (DOMAIN inodes' \ DOMAIN inodes) \ {ROOT}
    IN new = Smallest(inodes)..(Smallest(inodes) + Cardinality(new) - 1)

\* C3: every number allocation hands out is the smallest integer >= ROOT + 1
\* that is no key of the registry, and ROOT is never bound to a non-root
\* entity, also while get(ROOT) has not yet installed the root.
C3_SmallestUnused ==
    /\ [](AllocId(inodes) = Smallest(inodes) /\ RootReserved(inodes))
    /\ [][AllocatesSmallest]_vars

\* An allocation has handed out the last number the registry has room for.
C3_Witness ==
    /\ ROOT + MaxInodes - 1 \in DOMAIN inodes
    /\ inodes[ROOT + MaxInodes - 1].kind \in FileKinds

Allocated == DOMAIN inodes \ {ROOT}

\* C4 (as the code has it): the probes of a sequence of _get_object_inode and
\* register calls allocate one number for each distinct canonical path that no
\* pending NewFile of the same parent and name answered, and these numbers are
\* the smallest values >= ROOT + 1.
C4_OneNumberPerUnabsorbedPath ==
    Allocated = (ROOT + 1)..(ROOT + Cardinality(probes \ absorbed))

\* Probes have been resolved up to the room of the registry, one of them by a
\* pending NewFile.
C4_Witness ==
    /\ absorbed # {}
    /\ Cardinality(DOMAIN inodes) = MaxPairInodes

\* C4 (as stated): probes with k distinct canonical paths allocate exactly k
\* numbers, the k smallest values >= ROOT + 1.
C4_OneNumberPerPath ==
    Allocated = (ROOT + 1)..(ROOT + Cardinality(probes))

\* Which entity a number is bound to: the entity installed under it, by kind,
\* parent and the count of installations under that number.
Identity(e) == <<e.kind, e.parent, e.gen>>

\* C5: a registered number stays a key of the registry and stays bound to the
\* entity it was registered to, so that get(n) keeps returning that entity and
\* no later installation takes the number.
C5_NeverRebound ==
    [][\A n \in DOMAIN inodes :
          n \in DOMAIN inodes' /\ Identity(inodes'[n]) = Identity(inodes[n])]_vars

\* The files that p's listing returns now under the name x and that no live
\* inode stands for yet.
NewlyListedFiles(p, x) ==
    {c \in ListedNow(p) :
        /\ c.name = x
        /\ c.okind = "File"
        /\ PathHits(inodes, PathOf(inodes, _create_object_inode(p, c))) = {}}

CachedChildren(p) ==
    IF CacheHas(childRel, p)
    THEN {childRel[p].list[j] : j \in 1..Len(childRel[p].list)}
    ELSE {}

\* Inode k is a live placeholder that register(p, x) returned, p's listing now
\* returns a file named x that no live inode stands for, and the listing cache
\* holds no other child for p.
PendingAndListed(k) ==
    /\ rootPending = 0
    /\ k \in Live(inodes)
    /\ _is_new_file(inodes[k])
    /\ get_children_of(Here, inodes[k].parent).ok
    /\ NewlyListedFiles(inodes[k].parent, name(inodes[k])) # {}
    /\ CachedChildren(inodes[k].parent) \subseteq {k}

\* find_by_name(p, x) returns the placeholder k itself, and k then holds the
\* remote file instead of the NewFile.
PromotedInPlace(k) ==
    LET r == find_by_name(Here, inodes[k].parent, name(inodes[k]))
    IN /\ r.ret = k
       /\ ~_is_new_file(r.w.ino[k])
       /\ r.w.ino[k].file \in NewlyListedFiles(inodes[k].parent, name(inodes[k]))

Registered(p, n) ==
    LET r == _get_object_inode(inodes, p, NewFile(n))
    IN [w |-> [Here EXCEPT !.ino = r.ino], k |-> r.ret]

\* p's listing succeeds and returns no object named n.
NotListed(p, n) ==
    /\ rootPending = 0
    /\ get_children_of(Here, p).ok
    /\ \A c \in ListedNow(p) : c.name # n

\* No other inode of p's cached listing still answers to the name n; reg is
\* Registered(p, n).
NoCachedNamesake(p, n, reg) ==
    CacheHas(childRel, p) =>
        CachedScan(reg.w.ino, childRel[p].list, 1, n).ret \in {NoId, reg.k}

FoundAfterRegister(p, n, reg) ==
    /\ reg.k # NoId
    /\ find_by_name(reg.w, p, n).ret = reg.k

\* C7 (as the code has it): register(p, n) followed by find_by_name(p, n)
\* returns the registered inode when no remote listing of p contains n and no
\* other inode of p's cached listing still bears the name n.
C7_FoundAfterRegister ==
    \A p \in Dirs : \A n \in Names :
        LET reg == Registered(p, n)
        IN NotListed(p, n) /\ NoCachedNamesake(p, n, reg)
               => FoundAfterRegister(p, n, reg)

\* A registered name is found again through a listing cache that holds an
\* entry for the parent with a child in it.
C7_Witness ==
    \E p \in Dirs : \E n \in Names :
        LET reg == Registered(p, n)
        IN /\ NotListed(p, n) /\ NoCachedNamesake(p, n, reg)
           /\ CachedChildren(p) # {}
           /\ \E k \in Live(inodes) : _is_new_file(inodes[k]) /\ reg.k = k
           /\ FoundAfterRegister(p, n, reg)

\* C7 (as stated): register(p, n) followed by find_by_name(p, n) returns the
\* registered inode whenever no remote listing of p contains n, whatever the
\* listing cache holds for p.
C7_FoundWhateverIsCached ==
    \A p \in Dirs : \A n \in Names :
        NotListed(p, n) => FoundAfterRegister(p, n, Registered(p, n))

\* C8: no find_by_name call returns an inode that mark_removed has marked,
\* neither from the cached scan, nor from the listing, nor from the NewFile
\* search.
C8_RemovedNeverReturned ==
    rootPending = 0 =>
        \A p \in Dirs : \A n \in LookupNames(inodes[p]) :
            LET k == find_by_name(Here, p, n).ret
            IN k \in DOMAIN inodes => ~inodes[k].removed

\* The objects resolve_or_allocate can be handed for parent p: what p's listing
\* returns now, and the placeholders of register.
Probes(p) == ListedNow(p) \cup {NewFile(n) : n \in Names}

\* The probes for the parent of the removed inode i whose canonical path is the
\* path of i.
ProbesOfRemoved(i) ==
    IF i \in DOMAIN inodes /\ inodes[i].removed /\ inodes[i].kind \in FileKinds
    THEN {obj \in Probes(inodes[i].parent) :
             PathOf(inodes, _create_object_inode(inodes[i].parent, obj)) = path(inodes, i)}
    ELSE {}

\* The call installs a fresh entity for obj under a new number.
AllocatesAfresh(p, obj) ==
    LET r == _get_object_inode(inodes, p, obj)
    IN /\ r.ret \notin DOMAIN inodes
       /\ r.ret = Smallest(inodes)
       /\ DOMAIN r.ino = DOMAIN inodes \cup {r.ret}
       /\ r.ino[r.ret] = _create_object_inode(p, obj)

\* The call answers by the precedence of _get_object_inode among the live
\* inodes: one with the path of the probe, else a pending NewFile of the same
\* parent and name, else a fresh entity under a new number.
ResolvesAmongLive(p, obj) ==
    LET r == _get_object_inode(inodes, p, obj)
        dpath == PathOf(inodes, _create_object_inode(p, obj))
        pending == {j \in Live(inodes) : /\ _is_new_file(inodes[j])
                                          /\ inodes[j].parent = p
                                          /\ name(inodes[j]) = obj.name}
    IN IF \E j \in Live(inodes) : path(inodes, j) = dpath
       THEN r.ret \in Live(inodes) /\ path(inodes, r.ret) = dpath
       ELSE IF pending # {} THEN r.ret \in pending
       ELSE AllocatesAfresh(p, obj)

\* C9 (as the code has it): after mark_removed(i), resolve_or_allocate for an
\* object whose canonical path equals i's path does not return i; it returns
\* the live inode that has this path or, failing that, the pending NewFile of
\* the same parent and name, and only failing both allocates a new number.
C9_RemovedNotResolved ==
    rootPending = 0 =>
        \A i \in DOMAIN inodes : \A obj \in ProbesOfRemoved(i) :
            /\ _get_object_inode(inodes, inodes[i].parent, obj).ret # i
            /\ ResolvesAmongLive(inodes[i].parent, obj)

\* An inode has been removed, the remote still lists its object, and resolving
\* that object allocates a new number.
C9_Witness ==
    /\ rootPending = 0
    /\ \E i \in DOMAIN inodes : \E obj \in ProbesOfRemoved(i) :
           /\ obj.okind # "NewFile"
           /\ AllocatesAfresh(inodes[i].parent, obj)

\* C9 (as stated): after mark_removed(i), resolve_or_allocate for a remote
\* object whose canonical path equals i's path does not return i and allocates
\* a new number with a fresh entity under it (checked where no inode has
\* replaced i yet, that is, where no live inode has this path).
C9_RemovedReallocated ==
    rootPending = 0 =>
        \A i \in DOMAIN inodes :
            \A obj \in {c \in ProbesOfRemoved(i) : c.okind # "NewFile"} :
                PathHits(inodes, path(inodes, i)) = {} =>
                    /\ _get_object_inode(inodes, inodes[i].parent, obj).ret # i
                    /\ AllocatesAfresh(inodes[i].parent, obj)

\* C10: for a directory p of any kind, the find_by_name(p, x) that follows
\* invalidate(p) issues a fresh listing request to the remote before it
\* returns.
C10_FreshAfterInvalidate ==
    rootPending = 0 =>
        \A p \in Dirs : \A x \in LookupNames(inodes[p]) :
            find_by_name(invalidate(Here, p, NoName), p, x).fetched

\* C11: find_by_name never answers from a directory listing that the remote
\* sent more than LIST_CACHE_TTL before the call: whenever the cached children
\* of p answer a lookup, what they hold was fetched at most LIST_CACHE_TTL ago.
C11_ListingNotStale ==
    \A p \in Dirs \cap DOMAIN fetchedAt : \A n \in LookupNames(inodes[p]) :
        LET r == find_by_name(Here, p, n)
        IN (CacheHas(childRel, p) /\ ~r.fetched /\ r.ret # NoId)
               => now - fetchedAt[p] <= LIST_CACHE_TTL

\* The unexpired cached children of p hold a child named n.
CachedNamed(p, n) ==
    /\ p \in DOMAIN childRel
    /\ now < childRel[p].at + LIST_CACHE_TTL
    /\ \E k \in 1..Len(childRel[p].list) : name(inodes[childRel[p].list[k]]) = n

\* No cached child of p is due for a reload of its attributes.
CachedChildrenFresh(p) ==
    \A k \in 1..Len(childRel[p].list) : ~Refresh(inodes, childRel[p].list[k], FALSE).req

AnsweredFromCache(p, n) ==
    LET r == find_by_name(Here, p, n)
    IN /\ ~r.fetched
       /\ r.err = ""
       /\ r.ret \in {childRel[p].list[k] : k \in 1..Len(childRel[p].list)}
       /\ name(inodes[r.ret]) = n
       /\ r.w = Here

\* C12 (amended): when the listing cache holds an unexpired entry for p with a
\* child named n and no cached child of p is due for an attribute reload,
\* find_by_name(p, n) returns that child from the cache, issues no request and
\* changes nothing.
C12_CachedLookupWhenFresh ==
    \A p \in Dirs : \A n \in LookupNames(inodes[p]) :
        (CachedNamed(p, n) /\ CachedChildrenFresh(p)) => AnsweredFromCache(p, n)

\* Two different names are cached under one parent, one of them a file's or a
\* folder's parent, and a lookup is answered from the cache.
C12_Witness ==
    \E p \in Dirs : \E n \in LookupNames(inodes[p]) :
        /\ CachedNamed(p, n)
        /\ CachedChildrenFresh(p)
        /\ Len(childRel[p].list) >= 2
        /\ \E q \in Dirs : inodes[q].kind = "Storage" /\ CachedNamed(q, "a")
                             /\ CachedChildrenFresh(q)

\* C12: when the listing cache holds an unexpired entry for p with a child
\* named n, find_by_name(p, n) is answered without a remote listing request.
C12_CachedLookupNoListing ==
    \A p \in Dirs : \A n \in LookupNames(inodes[p]) :
        CachedNamed(p, n) => ~find_by_name(Here, p, n).fetched

NotDirs == {i \in DOMAIN inodes : inodes[i].kind \notin DirKinds}

\* C13: find_by_name(i, n) and get_children_of(i) on an inode i that has no
\* children fail with ENOTDIR, issue no remote request and leave the inodes
\* and every cache as they were.
C13_NotADirectory ==
    \A i \in NotDirs : \A n \in Names \cup {StorageName} :
        /\ find_by_name(Here, i, n) = Outcome(Here, NoId, "ENOTDIR", FALSE)
        /\ get_children_of(Here, i) = Listing(Here, FALSE, << >>, FALSE)
        /\ ChildrenError(Here, i) = "ENOTDIR"

\* A file and a descriptor file are registered and listings are cached.
C13_Witness ==
    /\ \E i \in NotDirs : inodes[i].kind = "File" /\ ~inodes[i].removed
    /\ \E i \in NotDirs : inodes[i].kind = "Attrs"
    /\ DOMAIN childRel # {}
    /\ \A i \in NotDirs : find_by_name(Here, i, "a").err = "ENOTDIR"

\* C14 (amended): get(n) for a number n other than ROOT that is not registered
\* returns None and leaves the inodes unchanged; get(ROOT) on an unregistered
\* root builds the root and installs it, or raises and installs nothing.
C14_GetUnknown ==
    /\ [](\A n \in Numbers \ (DOMAIN inodes \cup {ROOT}) : get(inodes, n) = NoId)
    /\ [][(\E n \in Numbers : Get(n)) => UNCHANGED inodes]_vars
    /\ [][(GetRootAll \/ GetRootFinish)
             => (ROOT \in DOMAIN inodes' /\ inodes' # inodes)]_vars
    /\ [][(GetRootFail \/ GetRootUnset) => UNCHANGED inodes]_vars

\* Inodes are registered, and numbers other than ROOT are not.
C14_Witness ==
    /\ ROOT \in DOMAIN inodes
    /\ Cardinality(DOMAIN inodes) >= 5
    /\ \E n \in Numbers \ (DOMAIN inodes \cup {ROOT}) : get(inodes, n) = NoId

\* C14: get(n) for a number that is not registered, ROOT included, leaves the
\* inodes unchanged.
C14_GetNeverInstalls ==
    [][(GetRootAll \/ GetRootFinish \/ \E n \in Numbers : Get(n))
         => UNCHANGED inodes]_vars

\* C15: in a single-project mount whose project id is missing, get(ROOT) fails
\* with NotFound (ENOENT), and no root is installed.
C15_RootNotFound ==
    (mode = "unset" /\ ROOT \notin DOMAIN inodes)
        => _get_osfproject_error(mode) = "ENOENT"

\* C16: invalidate with a number that is not registered raises ValueError
\* (UnknownInode) and changes nothing: no cached listing is dropped and no
\* inode is touched.
C16_InvalidateUnknown ==
    \A n \in Numbers \ DOMAIN inodes : \A nm \in Names \cup {NoName} :
        InvalidateNumber(Here, n, nm) = [w |-> Here, err |-> "ValueError"]

\* Listings are cached and a file has loaded attributes while a number is not
\* registered.
C16_Witness ==
    /\ Cardinality(DOMAIN childRel) >= 2
    /\ \E i \in DOMAIN inodes : inodes[i].kind = "File" /\ inodes[i].last_loaded # NoTime
    /\ \E n \in Numbers \ DOMAIN inodes :
           InvalidateNumber(Here, n, NoName).err = "ValueError"

\* What invalidate may change of the inode it is called on: the load time,
\* the recorded name and the written flag of a file or folder, the content of
\* a descriptor file.
SameButAttributes(e, f) ==
    [e EXCEPT !.last_loaded = NoTime, !.updated_name = NoName, !.invalidated = FALSE,
              !.file = NoObj]
    = [f EXCEPT !.last_loaded = NoTime, !.updated_name = NoName, !.invalidated = FALSE,
                !.file = NoObj]

InvalidateFrame(i, nm) ==
    LET w == invalidate(Here, i, nm)
    IN /\ DOMAIN w.ino = DOMAIN inodes
       /\ \A j \in DOMAIN inodes \ {i} : w.ino[j] = inodes[j]
       /\ SameButAttributes(w.ino[i], inodes[i])
       /\ inodes[i].kind # "Attrs" => w.ino[i].file = inodes[i].file
       /\ inodes[i].kind \in FileKinds =>
              w.ino[i].last_loaded = NoTime /\ w.ino[i].updated_name = nm
       /\ DOMAIN w.cr = DOMAIN childRel \ {i}
       /\ \A k \in DOMAIN w.cr : w.cr[k] = childRel[k]
       /\ w.pj = projCache /\ w.cc = pcCache /\ w.lc = plCache

\* C17: invalidate(i) deletes exactly the cached listing of i and resets
\* exactly i's own attribute state; the cached listings of every other inode,
\* i's parent included, every other inode and the set of registered numbers
\* are unchanged.
C17_InvalidateFrame ==
    \A i \in DOMAIN inodes : \A nm \in Names \cup {NoName} : InvalidateFrame(i, nm)

\* A folder whose listing is cached, below a storage whose listing is cached,
\* beside a file with loaded attributes.
C17_Witness ==
    \E i \in DOMAIN childRel : \E j \in DOMAIN inodes :
        /\ inodes[i].kind = "Folder"
        /\ inodes[i].last_loaded # NoTime
        /\ inodes[i].parent \in DOMAIN childRel
        /\ inodes[j].kind = "File" /\ inodes[j].last_loaded # NoTime
        /\ invalidate(Here, i, NoName).ino[i].last_loaded = NoTime
        /\ i \notin DOMAIN invalidate(Here, i, NoName).cr

\* A NewFile placeholder that was never invalidated.
Pending(e) == _is_new_file(e) /\ ~e.invalidated

\* The attributes of e are due for a reload.
Due(e, force) ==
    force \/ e.last_loaded = NoTime \/ now - e.last_loaded > FILE_ATTRIBUTE_CACHE_TTL

RefreshFetchesIffDue(i, force) ==
    LET r == Refresh(inodes, i, force)
    IN /\ r.req <=> (~Pending(inodes[i]) /\ Due(inodes[i], force))
       /\ ~r.req => (r.ino = inodes /\ r.err = "")

\* C18: refresh(force) of a File or Folder inode requests the remote iff
\* force is set, last_loaded is None or more than FILE_ATTRIBUTE_CACHE_TTL has
\* passed since last_loaded; otherwise it requests nothing and changes
\* nothing. A NewFile placeholder that was never invalidated never requests.
C18_RefreshFetchesIffDue ==
    \A i \in DOMAIN inodes : \A force \in BOOLEAN :
        inodes[i].kind \in FileKinds => RefreshFetchesIffDue(i, force)

\* A file whose attributes have aged past the TTL is reloaded without force,
\* or one loaded within the TTL is reloaded only with force.
C18_Witness ==
    \E i \in DOMAIN inodes :
        /\ inodes[i].kind \in FileKinds
        /\ ~_is_new_file(inodes[i])
        /\ inodes[i].last_loaded # NoTime
        /\ now - inodes[i].last_loaded > FILE_ATTRIBUTE_CACHE_TTL
        /\ Refresh(inodes, i, FALSE).req

\* The remote now holds an object of kind k under the name of inode i.
RemoteKindNow(i, k) ==
    \E o \in Objs : OKind(o) = k /\ rname[o] = name(inodes[i])

RefreshRejects(i, force, errno) ==
    LET r == Refresh(inodes, i, force)
    IN r.req => (r.err = errno /\ r.ino = inodes)

\* C19: a refresh of a File inode whose remote object is now a Folder fails
\* with EISDIR and leaves the inode's remote object, recorded name and
\* last_loaded as they were.
C19_FileNowFolder ==
    \A i \in DOMAIN inodes : \A force \in BOOLEAN :
        (inodes[i].kind = "File" /\ RemoteKindNow(i, "Folder"))
            => RefreshRejects(i, force, "EISDIR")

\* A file with loaded attributes whose name now belongs to a folder, and a
\* refresh of it that requests the remote.
C19_Witness ==
    \E i \in DOMAIN inodes :
        /\ inodes[i].kind = "File" /\ ~_is_new_file(inodes[i])
        /\ inodes[i].last_loaded # NoTime
        /\ RemoteKindNow(i, "Folder")
        /\ Refresh(inodes, i, TRUE).req
        /\ Refresh(inodes, i, TRUE).err = "EISDIR"

\* C20: a refresh of a Folder inode whose remote object is now a File fails
\* with ENOTDIR and does not replace the inode's remote object.
C20_FolderNowFile ==
    \A i \in DOMAIN inodes : \A force \in BOOLEAN :
        (inodes[i].kind = "Folder" /\ RemoteKindNow(i, "File"))
            => RefreshRejects(i, force, "ENOTDIR")

\* The children the remote lists now for the parent of inode i that have the
\* name of i, and those that have the path of the object i holds.
ListedByName(i) == {c \in ListedNow(inodes[i].parent) : c.name = name(inodes[i])}

ListedByPath(i) ==
    {c \in ListedNow(inodes[i].parent) : c.opath = _path(inodes, inodes[i])}

\* The refresh r of inode i ended with the object of S loaded, unless the
\* object was rejected for its kind.
LoadedFrom(r, i, S) ==
    /\ r.err # "ENOENT"
    /\ r.err = "" => (/\ _latest(r.ino[i]) \in S
                      /\ r.ino[i].updated_name = NoName
                      /\ r.ino[i].last_loaded = now)

RefreshLooksUp(i, force) ==
    LET r == Refresh(inodes, i, force)
    IN (r.req /\ get_children_of(Here, inodes[i].parent).ok) =>
          /\ ListedByName(i) # {} => LoadedFrom(r, i, ListedByName(i))
          /\ (ListedByName(i) = {} /\ ListedByPath(i) # {})
                 => LoadedFrom(r, i, ListedByPath(i))
          /\ (ListedByName(i) = {} /\ ListedByPath(i) = {})
                 => (r.err = "ENOENT" /\ r.ino = inodes)

\* C21: a refresh that has to fetch looks the object up among the parent's
\* remote children by the inode's current name first and, only if no child has
\* that name, by path; when neither lookup finds a child it fails with ENOENT
\* and leaves the inode's object, recorded name and last_loaded unchanged.
C21_RefreshLooksUp ==
    rootPending = 0 =>
        \A i \in DOMAIN inodes : \A force \in BOOLEAN :
            inodes[i].kind \in FileKinds => RefreshLooksUp(i, force)

\* A file whose attributes were loaded and have aged past the TTL, whose object
\* the remote no longer lists under its name or its path: the refresh fails
\* with ENOENT.
C21_Witness ==
    /\ rootPending = 0
    /\ \E i \in DOMAIN inodes :
           /\ inodes[i].kind = "File" /\ ~_is_new_file(inodes[i])
           /\ inodes[i].last_loaded # NoTime
           /\ ListedByName(i) = {} /\ ListedByPath(i) = {}
           /\ get_children_of(Here, inodes[i].parent).ok
           /\ Refresh(inodes, i, FALSE).req
           /\ Refresh(inodes, i, FALSE).err = "ENOENT"

\* The live inodes that have the canonical path of the probe obj under p.
WithPathOf(p, obj) ==
    {j \in Live(inodes) : path(inodes, j) = PathOf(inodes, _create_object_inode(p, obj))}

\* The live NewFile placeholders of parent p with the name of the probe.
PendingFor(p, obj) ==
    {j \in Live(inodes) : /\ inodes[j].kind = "File"
                          /\ _is_new_file(inodes[j])
                          /\ inodes[j].parent = p
                          /\ name(inodes[j]) = obj.name}

\* The objects resolve_or_allocate is handed for parent p: what p's listing
\* returns now and, where files can be created, the placeholders of register.
ProbesFor(p) ==
    ListedNow(p) \cup (IF inodes[p].kind \in {"Storage", "Folder"}
                       THEN {NewFile(n) : n \in Names} ELSE {})

Precedence(p, obj) ==
    LET r == _get_object_inode(inodes, p, obj)
    IN /\ WithPathOf(p, obj) # {}
           => (r.ret \in WithPathOf(p, obj) /\ DOMAIN r.ino = DOMAIN inodes)
       /\ (WithPathOf(p, obj) = {} /\ PendingFor(p, obj) # {})
           => (r.ret \in PendingFor(p, obj) /\ DOMAIN r.ino = DOMAIN inodes)
       /\ (WithPathOf(p, obj) = {} /\ PendingFor(p, obj) = {})
           => AllocatesAfresh(p, obj)

\* C22: resolve_or_allocate returns the live inode whose canonical path is the
\* probe's path if there is one; otherwise the live NewFile placeholder of the
\* same parent with the probe's name if there is one; and it allocates a new
\* number only when there is neither.
C22_Precedence ==
    rootPending = 0 => \A p \in Dirs : \A obj \in ProbesFor(p) : Precedence(p, obj)

\* The remote lists an object for which a live inode has its path while a
\* live placeholder has its name: the inode with the path is returned. Another
\* probe is answered by that placeholder.
C22_Witness ==
    /\ rootPending = 0
    /\ \E p \in Dirs : \E obj \in ListedNow(p) :
           /\ WithPathOf(p, obj) # {}
           /\ PendingFor(p, obj) # {}
           /\ WithPathOf(p, obj) \cap PendingFor(p, obj) = {}
           /\ _get_object_inode(inodes, p, obj).ret \in WithPathOf(p, obj)

\* The inode that find_by_name(p, n) returns, if it returns one, has the name n
\* and the parent p when the call returns.
ReturnedBearsName(p, n) ==
    LET r == find_by_name(Here, p, n)
    IN r.ret # NoId => (name(r.w.ino[r.ret]) = n /\ r.w.ino[r.ret].parent = p)

\* C23: whenever find_by_name(p, n) returns an inode, that inode's current
\* name is n and its parent is p, on the cached path, on the fresh-listing
\* path and on the NewFile path, also for inodes with a name recorded by
\* invalidate(inode, name).
C23_ReturnedBearsName ==
    rootPending = 0 =>
        \A p \in Dirs : \A n \in LookupNames(inodes[p]) : ReturnedBearsName(p, n)

\* What the remote itself lists for p now: the listing of p where no project
\* list is held back.
RemoteListing(p) ==
    get_children_of(World(inodes, childRel, [list |-> << >>, at |-> NoTime],
                          << >>, << >>), p)

\* The listing cache holds an unexpired entry for p and the scan of its
\* children finds none named n.
CachedWithout(p, n) ==
    /\ CacheHas(childRel, p)
    /\ CachedScan(inodes, childRel[p].list, 1, n).ret = NoId

\* find_by_name(p, n) requests the listing of p, and returns an inode if the
\* remote lists an object named n.
FallsThrough(p, n) ==
    LET r == find_by_name(Here, p, n)
    IN /\ r.fetched
       /\ (\E k \in 1..Len(RemoteListing(p).list) : RemoteListing(p).list[k].name = n)
              => r.ret # NoId

\* C24: when the listing cache has an unexpired entry for p but no cached
\* child is named n, find_by_name(p, n) does not answer from the cache: it
\* lists p afresh and searches the NewFiles, so that an object named n which
\* the remote holds at that moment is found.
C24_FallsThrough ==
    rootPending = 0 =>
        \A p \in Dirs : \A n \in LookupNames(inodes[p]) :
            (CachedWithout(p, n) /\ RemoteListing(p).ok) => FallsThrough(p, n)

\* The inodes once invalidate(i) has been called on every file and folder, so
\* that each of them is due for a reload.
AllDue ==
    [i \in DOMAIN inodes |->
        IF inodes[i].kind \in FileKinds THEN EntityInvalidate(inodes, i, NoName)[i]
        ELSE inodes[i]]

\* The positions of the cached children of p whose refresh succeeds and leaves
\* them with the name n.
GoodAt(ino, p, n) ==
    {k \in 1..Len(childRel[p].list) :
        /\ Refresh(ino, childRel[p].list[k], FALSE).err = ""
        /\ name(Refresh(ino, childRel[p].list[k], FALSE).ino[childRel[p].list[k]]) = n}

FailingAt(ino, p) ==
    {k \in 1..Len(childRel[p].list) : Refresh(ino, childRel[p].list[k], FALSE).err # ""}

\* The scan of the cached children of p returns the first child whose refresh
\* succeeds and that then has the name n, failures before it notwithstanding;
\* where there is none, the lookup goes on to list p and fails only if that
\* listing fails.
ScanSkipsFailures(ino, p, n) ==
    LET sc == CachedScan(ino, childRel[p].list, 1, n)
        r == find_by_name([Here EXCEPT !.ino = ino], p, n)
    IN /\ sc.ret = IF GoodAt(ino, p, n) = {} THEN NoId
                   ELSE childRel[p].list[Min(GoodAt(ino, p, n))]
       /\ GoodAt(ino, p, n) # {} => (r.err = "" /\ r.ret = sc.ret /\ ~r.fetched)
       /\ (GoodAt(ino, p, n) = {} /\ RemoteListing(p).ok)
              => (r.err = "" /\ r.fetched /\ p \in DOMAIN r.w.cr)

\* C25: during the cached scan of find_by_name a failing refresh of a cached
\* child does not fail the lookup: the child is skipped, the remaining cached
\* children are still examined in order, and resolution goes on with the later
\* steps.
C25_ScanSkipsFailures ==
    rootPending = 0 =>
        \A p \in Dirs : \A n \in LookupNames(inodes[p]) : \A ino \in {inodes, AllDue} :
            CacheHas(childRel, p) => ScanSkipsFailures(ino, p, n)

\* Two children are cached, the refresh of the first fails and the scan
\* returns the second.
C25_Witness ==
    /\ rootPending = 0
    /\ \E p \in Dirs : \E n \in LookupNames(inodes[p]) :
           /\ CacheHas(childRel, p)
           /\ 1 \in FailingAt(AllDue, p)
           /\ 2 \in GoodAt(AllDue, p, n)
           /\ CachedScan(AllDue, childRel[p].list, 1, n).ret = childRel[p].list[2]

\* Caches c and d answer alike for key k: both have no entry for it, or both
\* have the same one.
SameEntry(c, d, k) ==
    /\ CacheHas(c, k) <=> CacheHas(d, k)
    /\ CacheHas(c, k) => c[k] = d[k]

\* The listing of p fails now, and the cached children of p, if any, do not
\* answer the lookup of n.
ListingFails(p, n) ==
    /\ ~RemoteListing(p).ok
    /\ CacheHas(childRel, p) => CachedScan(inodes, childRel[p].list, 1, n).ret = NoId

FailurePropagated(p, n) ==
    LET r == find_by_name(Here, p, n)
    IN /\ r.err = "EIO"
       /\ r.ret = NoId
       /\ \A q \in DOMAIN inodes : SameEntry(childRel, r.w.cr, q)

\* C26: if the remote listing fails during the fresh-listing step of
\* find_by_name(p, n), the error is propagated to the caller and no list is
\* installed: the listing cache answers for p as it did before the call.
C26_FailurePropagated ==
    rootPending = 0 =>
        \A p \in Dirs : \A n \in LookupNames(inodes[p]) :
            ListingFails(p, n) => FailurePropagated(p, n)

\* The children of a folder are cached, the remote has lost the folder since,
\* and the lookup in it fails.
C26_Witness ==
    /\ rootPending = 0
    /\ \E p \in Dirs : \E n \in LookupNames(inodes[p]) :
           /\ inodes[p].kind = "Folder"
           /\ CacheHas(childRel, p)
           /\ ListingFails(p, n)
           /\ find_by_name(Here, p, n).err = "EIO"

\* What the cached scan of find_by_name(p, n) leaves.
ScanOf(p, n) ==
    IF CacheHas(childRel, p) THEN CachedScan(inodes, childRel[p].list, 1, n)
    ELSE [ino |-> inodes, ret |-> NoId]

\* World w has, compared with the current state, no inode more, no other
\* content in a descriptor file and no placeholder promoted.
NoEntityMutation(w) ==
    /\ DOMAIN w.ino = DOMAIN inodes
    /\ \A i \in DOMAIN inodes :
           /\ inodes[i].kind = "Attrs" => w.ino[i].file = inodes[i].file
           /\ _is_new_file(inodes[i]) => w.ino[i].file = inodes[i].file

CancelLeavesNothing(p, n) ==
    \A k \in SuspensionPoints(inodes[p], RemoteListing(p).list) :
        LET w == CancelledInListing(Here, p, n, k, ScanOf(p, n))
        IN /\ \A q \in DOMAIN inodes : SameEntry(childRel, w.cr, q)
           /\ NoEntityMutation(w)

\* C27: a find_by_name task cancelled at any suspension point leaves no
\* partially built listing in the cache and no half-promoted NewFile, the
\* cache set and every in-place entity mutation of the run (registry
\* insertions, replacement of a ProjectAttributes inode's content, NewFile
\* promotion) being performed only at the end of the run.
C27_CancelLeavesNothing ==
    rootPending = 0 =>
        \A p \in Dirs : \A n \in LookupNames(inodes[p]) :
            (ScanOf(p, n).ret = NoId /\ RemoteListing(p).ok) => CancelLeavesNothing(p, n)

\* The refresh r of inode i, called after invalidate(i, n): a failed one leaves
\* the name n, a successful one leaves the name of the remote object, no
\* recorded name and the time of the refresh.
AfterRefresh(r, i, n) ==
    /\ r.err # "" => name(r.ino[i]) = n
    /\ r.err = "" => (/\ r.ino[i].updated_name = NoName
                      /\ name(r.ino[i]) = _latest(r.ino[i]).name
                      /\ r.ino[i].last_loaded = now)

NameRecorded(i, n) ==
    LET w == invalidate(Here, i, n)
    IN /\ name(w.ino[i]) = n
       /\ \A force \in BOOLEAN : AfterRefresh(Refresh(w.ino, i, force), i, n)

\* C28: after invalidate(i, n) with a name n on a File or Folder inode, a
\* NewFile placeholder included, the name of i is n until the next successful
\* refresh of i; a successful refresh clears the recorded name and sets
\* last_loaded to the time of the refresh.
C28_NameRecorded ==
    rootPending = 0 =>
        \A i \in DOMAIN inodes : \A n \in Names :
            inodes[i].kind \in FileKinds => NameRecorded(i, n)

\* The storages a server may return for a project, in any order it may
\* return them.
StorageNames == {StorageName, "gh"}

ServerOrders ==
    {st \in UNION {[1..k -> StorageNames] : k \in 0..MaxStorages} :
        \A j, k \in DOMAIN st : st[j] = st[k] => j = k}

StorageObjs(st) == [k \in DOMAIN st |-> Obj("Storage", st[k], st[k], <<>>, 0)]

NamesOf(list) == [k \in DOMAIN list |-> list[k].name]

VirtualNames == <<".attributes.json", ".children", ".linked">>

\* The listing of project p where the server returns the storages st.
InListingOrder(p, st) ==
    LET list == ProjectEntries(inodes[p], inodes[p].meta, StorageObjs(st))
    IN /\ NamesOf(list) = VirtualNames \o st
       /\ \A k \in 0..Len(list) :
              NamesOf(readdir(list, k)) = SubSeq(VirtualNames \o st, k + 1, Len(list))

\* Two calls in a row yield the descriptors and the storages in this order.
OnEveryCall(p) ==
    LET first == get_children_of(Here, p)
        again == get_children_of(first.w, p)
    IN /\ first.ok /\ again.ok
       /\ NamesOf(first.list) = VirtualNames \o NamesOf(RemoteStorages(inodes[p].file.oid))
       /\ NamesOf(again.list) = NamesOf(first.list)

\* C29: children_of(Project) yields, on every call, the .attributes.json
\* descriptor, then the .children descriptor, then the .linked descriptor, and
\* then the project's storages in the order the server returns them; a
\* directory read of a project lists the three virtual entries before any
\* storage.
C29_InListingOrder ==
    \A p \in DOMAIN inodes :
        inodes[p].kind = "Project" =>
            /\ OnEveryCall(p)
            /\ \A st \in ServerOrders : InListingOrder(p, st)

\* A project whose children have been listed before and are registered, with
\* a storage among them.
C29_Witness ==
    \E p \in DOMAIN inodes :
        /\ inodes[p].kind = "Project"
        /\ CacheHas(childRel, p)
        /\ Len(childRel[p].list) = 4
        /\ Len(get_children_of(Here, p).list) = 4
        /\ get_children_of(Here, p).list[4].okind = "Storage"

\* The nodes of the pages requested so far.
FetchedNodes ==
    UNION {{paging.pages[u].data[k] : k \in DOMAIN paging.pages[u].data} :
              u \in paging.visited \cup {paging.next_url}}

\* Where an id stands in the ascending order of the ids.
IdRank(id) == CHOOSE k \in DOMAIN ProjOrder : ProjOrder[k] = id

\* Every entry of the list stands for a fetched node of type "nodes" that is no
\* registration and has an id; the ids ascend strictly.
ListedProjectsOnly(list) ==
    /\ \A k \in DOMAIN list :
           /\ list[k].oid # ""
           /\ \E nd \in FetchedNodes :
                  nd.id = list[k].oid /\ nd.type = "nodes" /\ ~nd.registration
    /\ \A j, k \in DOMAIN list : j < k => IdRank(list[j].oid) < IdRank(list[k].oid)

\* C30: the project listings returned for ProjectsRoot, .children and .linked
\* contain only nodes of type "nodes" whose attributes.registration is not true
\* and whose id is not empty; each project id occurs at most once and the
\* entries are in ascending order of id, for any number of pages and any
\* duplicates across pages.
C30_ListedProjectsOnly ==
    paging.pc = "done" => ListedProjectsOnly(projCache.list)

\* A listing over three pages that returns two projects: the ids arrive out of
\* order, a registration is among the nodes, and the last page links back to a
\* page already visited.
C30_Witness ==
    /\ paging.pc = "done"
    /\ Cardinality(paging.visited) = 2
    /\ Len(projCache.list) = 2
    /\ Len(paging.pages[1].data) = 1 /\ paging.pages[1].data[1] = Node("nodes", FALSE, "p2")
    /\ \E nd \in FetchedNodes : nd.registration
    /\ paging.pages[paging.next_url].next \in paging.visited

\* C31: pagination terminates: for every finite set of pages, whatever graph
\* their links.next form, a run whose requests all return issues finitely many
\* requests and ends.
C31_PaginationEnds == <>(paging.pc = "done")

\* A run has ended on pages whose links form a cycle of two pages.
C31_Witness ==
    /\ paging.pc = "done"
    /\ paging.pages[1].next = 2
    /\ paging.pages[2].next = 1

\* C32: within one pagination run a links.next that names a URL the run has
\* already issued stops the iteration without issuing that URL again: no URL
\* is requested twice, also when a page's links.next points to the page itself.
C32_NoUrlTwice == paging.reissued = {}

\* The step ends read t.
ReadFinishes(t) == reading.reads[t] # NoRead /\ reading'.reads[t] = NoRead

\* After the step the descriptor held by the inode that was read and the
\* metadata of the project above it are the attributes read t fetched, and the
\* bytes written are their serialization.
StoredBy(t) ==
    LET r == reading.reads[t]
    IN /\ inodes'[r.ino].file.attrs = r.got
       /\ inodes'[inodes[r.ino].parent].meta = r.got
       /\ write_to(inodes, r.ino, r.held, r.got).data = dumps(AttrDict(r.got))

\* C33: when a read (write_to) of .attributes.json completes, the attributes on
\* the descriptor held by the .attributes.json inode and the metadata on the
\* owning project inode both equal the attributes that read fetched from
\* /nodes/{id}, and the bytes written are the serialization of those attributes.
C33_ReadStores == [][\A t \in 1..MaxReads : ReadFinishes(t) => StoredBy(t)]_vars

\* The bytes a read of inode i produces when it is made now, alone.
ReadNow(i) == write_to(inodes, i, TRUE, reading.remote).data

\* C34: at every moment the size reported for a .attributes.json inode equals
\* the byte length of the serialization that a read of that inode produces at
\* that moment, before the first read and after the remote attributes changed.
C34_SizeIsReadLength ==
    \A i \in Live(inodes) : inodes[i].kind = "Attrs" => size(inodes[i]) = Len(ReadNow(i))

\* A single-project mount on which get(ROOT) has returned and nothing else
\* has been called.
FreshMount == mode = "single" /\ DOMAIN inodes = {ROOT} /\ DOMAIN childRel = {}

\* The listing of the storage contains o and nothing else.
OnlyEntry(o) == IsPresent(o) /\ \A q \in Objs \ {o} : ~IsPresent(q)

\* The first lookups on a fresh mount, the storage being given number s and
\* the entry looked up under it the number after s.
FirstLookups(s) ==
    LET r == find_by_name(Here, ROOT, StorageName)
    IN /\ r.ret = s
       /\ r.w.ino[s].kind = "Storage"
       /\ \A o \in Objs :
             OnlyEntry(o) =>
                LET q == find_by_name(r.w, s, rname[o])
                IN q.ret = s + 1 /\ q.w.ino[s + 1].kind = OKind(o)

KindOf(e, o) ==
    /\ OKind(o) = "Folder" => e.kind = "Folder"
    /\ OKind(o) = "File" => ~has_children(e)

\* What _get_object_inode and an uncached find_by_name return for the object o
\* listed under p has the kind of o.
ResolvesToKind(p, o) ==
    /\ LET r == _get_object_inode(inodes, p, RemoteObj(o))
       IN KindOf(r.ino[r.ret], o)
    /\ ~CacheHas(childRel, p) =>
          LET f == find_by_name(Here, p, rname[o])
          IN f.ret # NoId => KindOf(f.w.ino[f.ret], o)

\* C36: resolution converts no kind silently: _get_object_inode and
\* find_by_name never return a File inode, a pending NewFile of the same parent
\* and name included, as the inode of a remote Folder, and never a directory
\* inode for a remote File.
C36_NoKindConversion ==
    \A p \in Live(inodes) :
       inodes[p].kind = "Storage" =>
          \A o \in Objs : IsPresent(o) => ResolvesToKind(p, o)

\* The objects of a listing with their names, in order.
Entries(list) == [k \in DOMAIN list |-> <<list[k].okind, list[k].oid, list[k].name>>]

\* The remote no longer lists under p what the suspended find_by_name was sent.
ListingOutdated(lk) == Entries(get_children_of(Here, lk.p).list) # Entries(lk.list)

\* invalidate(p) is called now, while find_by_name lk is suspended, and then
\* the find_by_name runs to its end: the listing caches that leaves.
InvalidatedThenResumed(lk) == Resume(invalidate(Here, lk.p, NoName), lk).w.cr

\* C37: when invalidate(p) runs while the listing of a find_by_name(p, x) is in
\* flight, the list built from the remote state of before the invalidation is
\* not installed in the listing cache afterwards.
C37_StaleListNotInstalled ==
    (reading.lookup # NoLookup /\ ListingOutdated(reading.lookup)) =>
       ~CacheHas(InvalidatedThenResumed(reading.lookup), reading.lookup.p)

\* The step leaves under ROOT the entity that was installed there.
RootKept == ROOT \in DOMAIN inodes' /\ (inodes'[ROOT]).gen = (inodes[ROOT]).gen

\* C38: the root entity is constructed at most once per mount: once ROOT is
\* registered, every get(ROOT), overlapping ones included, returns that
\* entity, and no step installs another entity under ROOT.
C38_RootBuiltOnce == [][(ROOT \in DOMAIN inodes) => RootKept]_vars

\* The step takes neither the metadata of the project inode nor the content of
\* a .attributes.json inode back to an older version of the attributes.
NoRegress ==
    \A i \in DOMAIN inodes :
       /\ inodes[i].kind = "Project" => (inodes'[i]).meta >= (inodes[i]).meta
       /\ inodes[i].kind = "Attrs" => (inodes'[i]).file.attrs >= (inodes[i]).file.attrs

\* C39: the metadata of a project never regresses: once a read of
\* .attributes.json has stored freshly fetched attributes on the project
\* inode, no step of a find_by_name in flight and no read started earlier
\* replaces the metadata of the project or the content of .attributes.json by
\* attributes observed before those were fetched.
C39_MetadataNeverRegresses == [][NoRegress]_vars

\* The live inodes i and j are two inodes of one parent under one name.
Namesakes(i, j) ==
    /\ i # j
    /\ inodes[i].parent = inodes[j].parent
    /\ name(inodes[i]) = name(inodes[j])

\* C40: in every reachable state no two distinct live inodes with the same
\* parent have the same current name, whatever sequence of register,
\* find_by_name, invalidate with a new name and refresh led there.
C40_SiblingNamesUnique ==
    \A i \in Live(inodes) : \A j \in Live(inodes) : ~Namesakes(i, j)

====
